---------------------------- MODULE Spec2Model ----------------------------
(***************************************************************************)
(* A model of the NBA playoff simulator (adamsaleh11/NBASim, server side). *)
(*                                                                         *)
(* Numbers.  Ratings are fixed-point integers in units of 1/10000          *)
(* so the home bonus 0.03 is 300 and the luck term                         *)
(* Math.random() * 0.04 - 0.02 is 4 * draw - 200.  A draw of Math.random() *)
(* is an integer number of hundredths, 0..99.                              *)
(*                                                                         *)
(* Objects.  JavaScript compares objects by identity (winner === team1);   *)
(* each team record carries a field ref that stands for that identity.     *)
(***************************************************************************)
EXTENDS Integers, Sequences, FiniteSets, TLC

VARIABLES
  ser,      \* one call of simulateSeries (either service), game by game
  pin,      \* one call of SimulationService.simulatePlayInTournament
  brk,      \* one call of SimulationService.simulateConferencePlayoffs
  run,      \* the calls of SimulationService.runSimulation, by call id
  store,    \* the simulations collection: the documents saved, in order
  rng,      \* the position of Math.random on its tape
  esp,      \* one call of EspnDataService.simulateCurrentPlayoffs
  rat,      \* one rating computation: a stat line, a weighting, the rating
  stats     \* the StatsService in use and the teamstats collection

vars == <<ser, pin, brk, run, store, rng, esp, rat, stats>>
exceptSer == <<pin, brk, run, store, rng, esp, rat, stats>>
exceptPin == <<ser, brk, run, store, rng, esp, rat, stats>>
exceptBrk == <<ser, pin, run, store, rng, esp, rat, stats>>
exceptRun == <<ser, pin, brk, esp, rat, stats>>
exceptEsp == <<ser, pin, brk, run, store, rat, stats>>
exceptRat == <<ser, pin, brk, run, store, rng, esp, stats>>
exceptStats == <<ser, pin, brk, run, store, rng, esp, rat>>

---------------------------------------------------------------------------
(* Program constants *)

HomeBonus == 300            \* 0.03
LuckSpan == 4               \* 0.04 per unit draw, 400 / 100
LuckShift == 200            \* 0.02
WinsNeeded == 4

HomeGames == {1, 2, 5, 7}   \* [1, 2, 5, 7].includes(gameNumber)

(* Draws of Math.random() the model enumerates, in hundredths. *)
Draws == {0, 40, 54, 99}

---------------------------------------------------------------------------
(* The numbers of JavaScript that are no finite number: 1 / 0 is Infinity,  *)
(* Infinity * 0 and Infinity / Infinity are NaN.  A rating is a finite      *)
(* number in 1/10000 or one of these two, written as two integers that no   *)
(* finite rating reaches and that no arithmetic is done with.               *)
Infinity == 2^30
NaN == 2^30 + 1
IsFinite(x) == x \notin {Infinity, NaN}

(* a + b for a finite b: Infinity + b is Infinity, NaN + b is NaN. *)
Plus(a, b) == IF IsFinite(a) THEN a + b ELSE a

(* random < a / (a + b) as JavaScript evaluates it for a draw u in          *)
(* hundredths: a division by zero gives Infinity, -Infinity or NaN, and a   *)
(* comparison with NaN is false.  With a or b not finite the quotient is    *)
(* NaN (Infinity / Infinity) or 0 (a / Infinity), and no draw is below it.  *)
RandomLess(u, a, b) ==
  IF ~IsFinite(a) \/ ~IsFinite(b) THEN FALSE
  ELSE LET s == a + b IN
         IF s > 0 THEN u * s < 100 * a
         ELSE IF s < 0 THEN u * s > 100 * a
         ELSE a > 0

---------------------------------------------------------------------------
(* SimulationService.simulateSeries and EspnDataService.simulateSeries      *)

Team(ref, name, rating, wins) ==
  [ref |-> ref, name |-> name, weightedRating |-> rating, wins |-> wins]

(* undefined where a team is expected *)
NoTeam == [ref |-> 0, name |-> "", weightedRating |-> 0, wins |-> 0]
Present(t) == t.ref # 0

SeriesStart(svc, team1, team2, useLuckFactor, useHomeCourtAdvantage) ==
  [svc |-> svc, team1 |-> team1, team2 |-> team2,
   useLuckFactor |-> useLuckFactor,
   useHomeCourtAdvantage |-> useHomeCourtAdvantage,
   team1Wins |-> 0, team2Wins |-> 0, games |-> <<>>, bonus |-> <<>>,
   pc |-> "loop", result |-> <<>>]

(* while (team1Wins < 4 && team2Wins < 4) *)
SeriesContinuesOr(s) == s.team1Wins < WinsNeeded \/ s.team2Wins < WinsNeeded
SeriesContinues(s) == s.team1Wins < WinsNeeded /\ s.team2Wins < WinsNeeded

GameNumber(s) == s.team1Wins + s.team2Wins + 1

(* const team1HasHomeCourt = useHomeCourtAdvantage && [1,2,5,7].includes(g) *)
Team1HasHomeCourtShifted(s) ==
  s.useHomeCourtAdvantage /\ GameNumber(s) \in {1, 2, 6, 7}
Team1HasHomeCourt(s) ==
  s.useHomeCourtAdvantage /\ GameNumber(s) \in HomeGames

LuckFactor(s, luckDraw) ==
  IF s.useLuckFactor THEN luckDraw * LuckSpan - LuckShift ELSE 0

(* The amount added to each side's rating on top of the luck term. *)
Team1Bonus(s) == IF Team1HasHomeCourt(s) THEN HomeBonus ELSE 0
Team2Bonus(s) == IF Team1HasHomeCourt(s) THEN 0 ELSE HomeBonus

Team1EffectiveRating(s, luckDraw) ==
  Plus(s.team1.weightedRating, LuckFactor(s, luckDraw) + Team1Bonus(s))
Team2EffectiveRating(s, luckDraw) ==
  Plus(s.team2.weightedRating, LuckFactor(s, luckDraw) + Team2Bonus(s))

(* SimulationService: const winner = random < team1Chance ? team1 : team2;  *)
(* if (winner === team1) team1Wins++ else team2Wins++                       *)
SimTeam1Scores(s, luckDraw, outDraw) ==
  LET winner == IF RandomLess(outDraw, Team1EffectiveRating(s, luckDraw),
                              Team2EffectiveRating(s, luckDraw))
                THEN s.team1 ELSE s.team2
  IN winner.ref = s.team1.ref

(* EspnDataService: winner = e1 > e2 ? team1 : team2;                       *)
(* if (winner.name === team1.name) team1Wins++ else team2Wins++             *)
EspnTeam1Scores(s, luckDraw) ==
  LET winner == IF Team1EffectiveRating(s, luckDraw)
                     > Team2EffectiveRating(s, luckDraw)
                THEN s.team1 ELSE s.team2
  IN winner.name = s.team1.name

(* One iteration of the loop: the game is decided, counted and logged.      *)
(* bonus is a history of what was added to each side, kept for the checks.  *)
GameStep(s, luckDraw, outDraw) ==
  LET t1 == IF s.svc = "sim" THEN SimTeam1Scores(s, luckDraw, outDraw)
            ELSE EspnTeam1Scores(s, luckDraw)
      g == GameNumber(s)
  IN [s EXCEPT
        !.team1Wins = IF t1 THEN @ + 1 ELSE @,
        !.team2Wins = IF t1 THEN @ ELSE @ + 1,
        !.games = Append(@, [gameNumber |-> g,
                             winner |-> IF t1 THEN s.team1.name
                                        ELSE s.team2.name,
                             homeTeam |-> Team1HasHomeCourt(s)]),
        !.bonus = Append(@, <<Team1Bonus(s), Team2Bonus(s)>>)]

(* return { team1, team2, winner: team1Wins > team2Wins ? team1 : team2,    *)
(*          team1Wins, team2Wins, games }                                   *)
SeriesWinner(s) == IF s.team1Wins > s.team2Wins THEN s.team1 ELSE s.team2

SeriesResult(s) ==
  [team1 |-> s.team1, team2 |-> s.team2, winner |-> SeriesWinner(s),
   team1Wins |-> s.team1Wins, team2Wins |-> s.team2Wins, games |-> s.games]

---------------------------------------------------------------------------
(* The random source.  Math.random is a generator with hidden state: a      *)
(* cyclic tape of draws read from a position.  A call that draws reads the  *)
(* value at the position and moves it on by one.                            *)

(* A source whose draws depend on how many simulations are saved. *)
SourceBySaved(tape, pos) ==
  [tape |-> tape, pos |-> ((pos + Len(store) - 1) % Len(tape)) + 1]
Source(tape, pos) == [tape |-> tape, pos |-> pos]
NextDraw(src) == src.tape[src.pos]
Advance(src) == [src EXCEPT !.pos = (src.pos % Len(src.tape)) + 1]

(* One iteration of the loop of simulateSeries with its draws taken from    *)
(* src: the loop state and the source after it.  The luck draw is taken     *)
(* only when useLuckFactor is set, before the outcome draw.                 *)
SeriesTurn(s, src) ==
  LET src1 == IF s.useLuckFactor THEN Advance(src) ELSE src
      luckDraw == NextDraw(src)
      outDraw == NextDraw(src1)
  IN [s |-> GameStep(s, luckDraw, outDraw), src |-> Advance(src1)]

(* The loop run to its exit from n = [s, src].  Each turn's outcome is      *)
(* bound once, as a value, before the next turn starts from it.             *)
RECURSIVE RunSeries(_)
RunSeries(n) ==
  IF ~SeriesContinues(n.s) THEN n
  ELSE CHOOSE out \in {RunSeries(m) : m \in {SeriesTurn(n.s, n.src)}} : TRUE

(* simulateSeries(team1, team2, useLuckFactor, useHomeCourtAdvantage) of    *)
(* SimulationService: [ok, result, src].                                    *)
SimulateSeries(team1, team2, useLuckFactor, useHomeCourtAdvantage, src) ==
  IF ~(Present(team1) /\ Present(team2))
  THEN [ok |-> FALSE, error |-> "MissingTeamData", src |-> src]
  ELSE CHOOSE out \in
         {[ok |-> TRUE, result |-> SeriesResult(fin.s), bonus |-> fin.s.bonus,
           src |-> fin.src] :
            fin \in {RunSeries([s |-> SeriesStart("sim", team1, team2,
                                                  useLuckFactor,
                                                  useHomeCourtAdvantage),
                                src |-> src])}} : TRUE

---------------------------------------------------------------------------
(* SimulationService.simulateGame and simulatePlayInTournament              *)

(* teams.sort((a, b) => (b.wins ?? 0) - (a.wins ?? 0)): a stable sort,      *)
(* descending by wins, of the array it is called on.                        *)
RECURSIVE InsertByWins(_, _)
InsertByWins(sorted, t) ==
  IF sorted = <<>> THEN <<t>>
  ELSE IF Head(sorted).wins >= t.wins
       THEN <<Head(sorted)>> \o InsertByWins(Tail(sorted), t)
       ELSE <<t>> \o sorted

RECURSIVE SortByWins(_)
SortByWins(teams) ==
  IF teams = <<>> THEN <<>>
  ELSE InsertByWins(SortByWins(SubSeq(teams, 1, Len(teams) - 1)),
                    teams[Len(teams)])

(* return random < team1Chance ? team1 : team2 *)
SimulateGame(team1, team2, u) ==
  IF RandomLess(u, team1.weightedRating, team2.weightedRating)
  THEN team1 ELSE team2

PlayInMinTeams == 10

(* The call up to the first game: the length guard and the in-place sort.   *)
(* teams is the caller's array as the call leaves it; games is a history of *)
(* the games played, kept for the checks.                                   *)
PlayInEnter(teams) ==
  IF Len(teams) < PlayInMinTeams
  THEN [pc |-> "failed", error |-> "InsufficientTeams", given |-> teams,
        teams |-> teams, sortedTeams |-> <<>>, games |-> <<>>, seeds |-> <<>>]
  ELSE [pc |-> "game1", error |-> "", given |-> teams,
        teams |-> SortByWins(teams), sortedTeams |-> SortByWins(teams),
        games |-> <<>>, seeds |-> <<>>]

PlayInGame(p, team1, team2, u) ==
  Append(p.games, [team1 |-> team1, team2 |-> team2,
                   winner |-> SimulateGame(team1, team2, u)])

(* Game 1: 7th vs 8th *)
PlayInGame1(p, u) ==
  [p EXCEPT !.pc = "game2",
            !.games = PlayInGame(p, p.sortedTeams[7], p.sortedTeams[8], u)]

(* Game 2: 9th vs 10th *)
PlayInGame2(p, u) ==
  [p EXCEPT !.pc = "game3",
            !.games = PlayInGame(p, p.sortedTeams[9], p.sortedTeams[10], u)]

(* A game 3 played by the winner of game 1 instead of its loser. *)
PlayInGame3ByWinner(p, u) ==
  LET game1Winner == p.games[1].winner
      game2Winner == p.games[2].winner
      games == PlayInGame(p, game1Winner, game2Winner, u)
  IN [p EXCEPT !.pc = "done",
               !.games = games,
               !.seeds = SubSeq(p.sortedTeams, 1, 6)
                           \o <<game1Winner, games[3].winner>>]
(* Game 3: loser of game 1 vs winner of game 2, then the return value.      *)
PlayInGame3(p, u) ==
  LET seed7 == p.sortedTeams[7]
      seed8 == p.sortedTeams[8]
      game1Winner == p.games[1].winner
      game2Winner == p.games[2].winner
      game3LoserGame1 == IF game1Winner.ref = seed7.ref THEN seed8 ELSE seed7
      games == PlayInGame(p, game3LoserGame1, game2Winner, u)
  IN [p EXCEPT !.pc = "done",
               !.games = games,
               !.seeds = SubSeq(p.sortedTeams, 1, 6)
                           \o <<game1Winner, games[3].winner>>]

(* simulatePlayInTournament(teams) with its three draws taken from src.     *)
SimulatePlayInTournament(teams, src) ==
  IF Len(teams) < PlayInMinTeams
  THEN [p |-> PlayInEnter(teams), src |-> src]
  ELSE LET src1 == Advance(src)
           src2 == Advance(src1)
       IN CHOOSE out \in
            {[p |-> PlayInGame3(p2, NextDraw(src2)), src |-> Advance(src2)] :
               p2 \in {PlayInGame2(p1, NextDraw(src1)) :
                 p1 \in {PlayInGame1(p0, NextDraw(src)) :
                   p0 \in {PlayInEnter(teams)}}}} : TRUE

---------------------------------------------------------------------------
(* SimulationService.simulateConferencePlayoffs                             *)

(* list[k] of JavaScript for the 1-based k: undefined out of range. *)
At(list, k) == IF k \in 1..Len(list) THEN list[k] ELSE NoTeam

BracketMinTeams == 8
BracketRounds == 3

(* The call up to the first pairing: the length guard and the locals.  i is *)
(* the 0-based index of the inner loop.                                     *)
BracketEnter(conferenceName, teams, useLuckFactor, useHomeCourtAdvantage) ==
  LET b == [pc |-> "pairing", error |-> "", name |-> conferenceName,
            teams |-> teams, useLuckFactor |-> useLuckFactor,
            useHomeCourtAdvantage |-> useHomeCourtAdvantage,
            round |-> 1, i |-> 0, remainingTeams |-> teams,
            seriesResults |-> <<>>, nextRoundTeams |-> <<>>,
            rounds |-> <<>>, champion |-> NoTeam]
  IN IF Len(teams) < BracketMinTeams
     THEN [b EXCEPT !.pc = "failed", !.error = "InsufficientTeams"]
     ELSE b

(* const team1 = remainingTeams[i]; const team2 = remainingTeams[i + 1] *)
PairTeam1(b) == At(b.remainingTeams, b.i + 1)
PairTeam2Same(b) == At(b.remainingTeams, b.i + 1)
PairTeam2(b) == At(b.remainingTeams, b.i + 2)

(* After the inner loop of a round: rounds.push, remainingTeams =            *)
(* nextRoundTeams, round++; after round 3 the champion is remainingTeams[0]. *)
CloseRound(b) ==
  LET b1 == [b EXCEPT !.rounds = Append(@, [round |-> b.round,
                                            series |-> b.seriesResults]),
                      !.remainingTeams = b.nextRoundTeams,
                      !.seriesResults = <<>>,
                      !.nextRoundTeams = <<>>,
                      !.i = 0,
                      !.round = @ + 1]
  IN IF b1.round <= BracketRounds THEN b1
     ELSE IF Present(At(b1.remainingTeams, 1))
          THEN [b1 EXCEPT !.pc = "done", !.champion = b1.remainingTeams[1]]
          ELSE [b1 EXCEPT !.pc = "failed", !.error = "NoChampion"]

(* seriesResults.push(seriesResult); nextRoundTeams.push(winner); i += 2,   *)
(* with what follows the inner loop when this was its last iteration.       *)
SeriesPlayed(b, sr) ==
  LET b1 == [b EXCEPT !.seriesResults = Append(@, sr.result),
                      !.nextRoundTeams = Append(@, sr.result.winner),
                      !.i = @ + 2]
  IN [b |-> IF b1.i < Len(b1.remainingTeams) THEN b1 ELSE CloseRound(b1),
      src |-> sr.src]

(* One iteration of the inner loop: [b, src]. *)
BracketStep(b, src) ==
  LET team1 == PairTeam1(b)
      team2 == PairTeam2(b)
  IN IF ~(Present(team1) /\ Present(team2))
     THEN [b |-> [b EXCEPT !.pc = "failed", !.error = "PairingError"],
           src |-> src]
     ELSE CHOOSE out \in
            {SeriesPlayed(b, sr) :
               sr \in {SimulateSeries(team1, team2, b.useLuckFactor,
                                      b.useHomeCourtAdvantage, src)}} : TRUE

(* The loops run to the return or the throw from n = [b, src]. *)
RECURSIVE RunBracket(_)
RunBracket(n) ==
  IF n.b.pc # "pairing" THEN n
  ELSE CHOOSE out \in {RunBracket(m) : m \in {BracketStep(n.b, n.src)}} : TRUE

(* simulateConferencePlayoffs(...) with its draws taken from src. *)
SimulateConferencePlayoffs(conferenceName, teams, useLuckFactor, useHomeCourtAdvantage, src) ==
  CHOOSE out \in
    {RunBracket(n) :
       n \in {[b |-> BracketEnter(conferenceName, teams, useLuckFactor,
                                  useHomeCourtAdvantage),
               src |-> src]}} : TRUE

---------------------------------------------------------------------------
(* SimulationService.runSimulation                                          *)

(* An optional boolean of SimulationInput is "absent", "true" or "false".   *)
(* input.x || d *)
OrElse(x, d) == IF x = "true" THEN TRUE ELSE d

DefaultWeighting ==
  [offensiveWeight |-> 30, defensiveWeight |-> 50, threePointWeight |-> 20]

(* const weighting = input.weighting || { 0.30, 0.50, 0.20 }; the optional  *)
(* input.weighting is <<>> when absent and <<w>> when given.                *)
WeightingOf(input) ==
  IF input.weighting = <<>> THEN DefaultWeighting ELSE input.weighting[1]

(* const date = input.date || new Date() *)
DateOf(input) == IF input.date = "absent" THEN "now" ELSE input.date

(* off * ow + (1 / def) * dw + tp * tw for weights in hundredths, none      *)
(* below 0, in 1/10000 with the quotient cut to 1/10000.  1 / 0 is          *)
(* Infinity: times a weight above 0 it stays Infinity, times 0 it is NaN,   *)
(* and the sum with the two finite terms is the same.                       *)
RatingFormula(off, def, tp, ow, dw, tw) ==
  IF def = 0 THEN (IF dw = 0 THEN NaN ELSE Infinity)
  ELSE 100 * off * ow + (100 * dw) \div def + 100 * tp * tw

(* The rating calculateTeamRatings gives one stat line. *)
WeightedRating(stat, weighting) ==
  RatingFormula(stat.offensiveRating, stat.defensiveRating,
                stat.threePointPercentage, weighting.offensiveWeight,
                weighting.defensiveWeight, weighting.threePointWeight)

(* teamStats.map(stat => ({ name, weightedRating, wins, losses })): one new *)
(* object for each stat line, identified here by the place of the line.     *)
CalculateTeamRatings(teamStats, weighting) ==
  [k \in 1..Len(teamStats) |->
     Team(k, teamStats[k].teamName, WeightedRating(teamStats[k], weighting),
          teamStats[k].wins)]

(* const conference = stat.conference || 'Western' *)
ConferenceOf(stat) == IF stat.conference = "" THEN "Western" ELSE stat.conference

RECURSIVE SelectTeams(_, _, _)
SelectTeams(teams, teamStats, c) ==
  IF teams = <<>> THEN <<>>
  ELSE (IF ConferenceOf(Head(teamStats)) = c THEN <<Head(teams)>> ELSE <<>>)
         \o SelectTeams(Tail(teams), Tail(teamStats), c)

(* conferenceTeams[conference].push(team) throws a TypeError for a          *)
(* conference that is neither key of the record.                            *)
SplitTeamsByConference(teams, teamStats) ==
  IF \E k \in 1..Len(teamStats) :
       ConferenceOf(teamStats[k]) \notin {"Eastern", "Western"}
  THEN [ok |-> FALSE]
  ELSE [ok |-> TRUE,
        Eastern |-> SelectTeams(teams, teamStats, "Eastern"),
        Western |-> SelectTeams(teams, teamStats, "Western")]

ConferenceResult(b) ==
  [name |-> b.name, rounds |-> b.rounds, champion |-> b.champion]

(* simulateFinals: the series between the two champions; only its winner is *)
(* returned.                                                                *)
SimulateFinals(easternChampion, westernChampion, useLuckFactor, useHomeCourtAdvantage, src) ==
  SimulateSeries(easternChampion, westernChampion, useLuckFactor,
                 useHomeCourtAdvantage, src)

MinStatLines == 16

(* No document, no exception. *)
NoDoc == [id |-> 0]
NoError == [kind |-> "", stage |-> ""]

(* throw: the run ends with an exception of the kind, raised at the stage.  *)
ThrownSwallowed(kind, stage, src) ==
  [ok |-> TRUE, doc |-> NoDoc, finals |-> <<>>, src |-> src]
Thrown(kind, stage, src) ==
  [ok |-> FALSE, kind |-> kind, stage |-> stage, src |-> src]

(* The locals of runSimulation that its later steps read. *)
Locals(input) ==
  [season |-> input.season, date |-> DateOf(input),
   weighting |-> WeightingOf(input),
   useLuckFactor |-> OrElse(input.useLuckFactor, FALSE),
   useHomeCourtAdvantage |-> OrElse(input.useHomeCourtAdvantage, TRUE)]

(* The steps of runSimulation after the stat lines are in, last to first.   *)
(* Each takes the values the steps before it produced and gives the         *)
(* document handed to save, with the finals series the document does not    *)
(* hold, or the exception thrown.                                           *)
BuildDocument(l, eb, wb, fin) ==
  IF ~fin.ok THEN Thrown("Error", "finals", fin.src)
  ELSE [ok |-> TRUE,
        doc |-> [season |-> l.season, date |-> l.date,
                 conferences |-> <<ConferenceResult(eb.b),
                                   ConferenceResult(wb.b)>>,
                 champion |-> fin.result.winner,
                 weighting |-> l.weighting],
        finals |-> fin.result,
        src |-> fin.src]

FinalsStage(l, eb, wb) ==
  IF wb.b.pc = "failed" THEN Thrown("Error", "bracket", wb.src)
  ELSE CHOOSE out \in
         {BuildDocument(l, eb, wb, fin) :
            fin \in {SimulateFinals(eb.b.champion, wb.b.champion,
                                    l.useLuckFactor, l.useHomeCourtAdvantage,
                                    wb.src)}} : TRUE

WesternPlayoffs(l, west, eb) ==
  IF eb.b.pc = "failed" THEN Thrown("Error", "bracket", eb.src)
  ELSE CHOOSE out \in
         {FinalsStage(l, eb, wb) :
            wb \in {SimulateConferencePlayoffs(
                      "Western", west.p.seeds, l.useLuckFactor,
                      l.useHomeCourtAdvantage, eb.src)}} : TRUE

EasternPlayoffs(l, east, west) ==
  IF west.p.pc = "failed" THEN Thrown("Error", "playin", west.src)
  ELSE CHOOSE out \in
         {WesternPlayoffs(l, west, eb) :
            eb \in {SimulateConferencePlayoffs(
                      "Eastern", east.p.seeds, l.useLuckFactor,
                      l.useHomeCourtAdvantage, west.src)}} : TRUE

WesternPlayIn(l, conferences, east) ==
  IF east.p.pc = "failed" THEN Thrown("Error", "playin", east.src)
  ELSE CHOOSE out \in
         {EasternPlayoffs(l, east, west) :
            west \in {SimulatePlayInTournament(conferences.Western,
                                               east.src)}} : TRUE

EasternPlayIn(l, conferences, src) ==
  IF ~conferences.ok THEN Thrown("Error", "split", src)
  ELSE CHOOSE out \in
         {WesternPlayIn(l, conferences, east) :
            east \in {SimulatePlayInTournament(conferences.Eastern,
                                               src)}} : TRUE

(* The body of runSimulation between the two awaits: from the stat lines    *)
(* to the document handed to save, or to the exception thrown.              *)
Simulate(input, teamStats, src) ==
  IF Len(teamStats) < MinStatLines THEN Thrown("BadRequest", "stats", src)
  ELSE CHOOSE out \in
         {EasternPlayIn(l, conferences, src) :
            l \in {Locals(input)},
            conferences \in
              {SplitTeamsByConference(
                 CalculateTeamRatings(teamStats, WeightingOf(input)),
                 teamStats)}} : TRUE

(* A mapping that answers with the first saved document, whichever run     *)
(* saved it.                                                                *)
MapToFirstSaved(saved) ==
  LET first == IF store = <<>> THEN saved ELSE store[1]
  IN [id |-> first.id, season |-> first.season, date |-> first.date,
      conferences |-> first.conferences, champion |-> first.champion,
      weighting |-> first.weighting]
(* mapToSimulationResult *)
MapToSimulationResult(saved) ==
  [id |-> saved.id, season |-> saved.season, date |-> saved.date,
   conferences |-> saved.conferences, champion |-> saved.champion,
   weighting |-> saved.weighting]

(* The tape of Math.random in a process. *)
RandomTape == <<40, 99, 0, 54, 99, 10, 70>>

(* catch (error) of runSimulation: a BadRequestException is rethrown as it  *)
(* is; anything else becomes new Error(`Failed to run simulation for season *)
(* ${input.season}.`), whose message names no stage.                        *)
RunCatch(error) ==
  IF error.kind = "BadRequest" THEN error
  ELSE [kind |-> "Error", stage |-> ""]

(* catch (error) of the resolver's runSimulation: a BadRequestException is  *)
(* rethrown as it is; anything else becomes an                              *)
(* InternalServerErrorException whose message ends with error.message.      *)
ResolverCatch(error) ==
  IF error.kind = "BadRequest" THEN error
  ELSE [kind |-> "InternalServerError", stage |-> error.stage]

(* What the caller of the mutation receives for an exception raised in the  *)
(* try block of runSimulation.                                              *)
Surfaced(error) == ResolverCatch(RunCatch(error))

(* error is the exception raised inside the try block, surfaced the one the *)
(* caller receives; teamStats is the local of that name, and drawsFrom the  *)
(* position of Math.random when the stat lines arrived.                     *)
IdleRun ==
  [pc |-> "idle", input |-> <<>>, teamStats |-> <<>>, drawsFrom |-> 0,
   doc |-> NoDoc, result |-> NoDoc,
   finals |-> <<>>, error |-> NoError, surfaced |-> NoError,
   storeBefore |-> <<>>]

(* runSimulation(input) up to await this.statsService.getTeamStats(...) *)
RunCall(r, input) ==
  /\ run[r].pc = "idle"
  /\ run' = [run EXCEPT ![r] = [@ EXCEPT !.pc = "awaitStats",
                                         !.input = input,
                                         !.storeBefore = store]]
  /\ UNCHANGED <<store, rng>>
  /\ UNCHANGED exceptRun

(* The stat lines arrive: the run goes on to the save, or throws.  A thrown *)
(* BadRequestException is rethrown as it is, anything else as a new Error.  *)
StatsResolve(r, teamStats) ==
  /\ run[r].pc = "awaitStats"
  /\ \E out \in {Simulate(run[r].input, teamStats, Source(RandomTape, rng))} :
       /\ rng' = out.src.pos
       /\ run' = [run EXCEPT ![r] =
            IF out.ok
            THEN [@ EXCEPT !.pc = "awaitSave", !.teamStats = teamStats,
                           !.drawsFrom = rng, !.doc = out.doc,
                           !.finals = out.finals]
            ELSE [@ EXCEPT !.pc = "threw", !.teamStats = teamStats,
                           !.drawsFrom = rng,
                           !.error = [kind |-> out.kind, stage |-> out.stage],
                           !.surfaced = Surfaced([kind |-> out.kind,
                                                  stage |-> out.stage])]]
  /\ UNCHANGED store
  /\ UNCHANGED exceptRun

(* getTeamStats rejects *)
StatsReject(r) ==
  /\ run[r].pc = "awaitStats"
  /\ run' = [run EXCEPT ![r] = [@ EXCEPT !.pc = "threw",
                                         !.error = [kind |-> "Error",
                                                    stage |-> "stats"],
                                         !.surfaced =
                                           Surfaced([kind |-> "Error",
                                                     stage |-> "stats"])]]
  /\ UNCHANGED <<store, rng>>
  /\ UNCHANGED exceptRun

(* simulation.save() resolves: the document is in the collection with its   *)
(* _id, and the call returns mapToSimulationResult(savedSimulation).        *)
SaveResolve(r) ==
  /\ run[r].pc = "awaitSave"
  /\ LET saved == [id |-> Len(store) + 1] @@ run[r].doc IN
       /\ store' = Append(store, saved)
       /\ run' = [run EXCEPT ![r] = [@ EXCEPT !.pc = "returned",
                                              !.result =
                                                MapToSimulationResult(saved)]]
  /\ UNCHANGED rng
  /\ UNCHANGED exceptRun

(* simulation.save() rejects: nothing is stored. *)
SaveReject(r) ==
  /\ run[r].pc = "awaitSave"
  /\ run' = [run EXCEPT ![r] = [@ EXCEPT !.pc = "threw",
                                         !.error = [kind |-> "Error",
                                                    stage |-> "save"],
                                         !.surfaced =
                                           Surfaced([kind |-> "Error",
                                                     stage |-> "save"])]]
  /\ UNCHANGED <<store, rng>>
  /\ UNCHANGED exceptRun

---------------------------------------------------------------------------
(* EspnDataService: simulateSeries by team id, simulatePlayIn               *)

(* A document of the teams collection with the rating                       *)
(* calculateWeightedRating gives its latest stat line; 0 without one.       *)
TeamDoc(id, name, conference, rating) ==
  [id |-> id, name |-> name, conference |-> conference, rating |-> rating]

NoTeamDoc == TeamDoc(0, "", "", 0)

(* teamModel.findById(id), teamModel.findOne({ name }) *)
FindById(db, id) ==
  IF \E k \in DOMAIN db : db[k].id = id
  THEN db[CHOOSE k \in DOMAIN db :
            db[k].id = id /\ \A j \in 1..(k - 1) : db[j].id # id]
  ELSE NoTeamDoc
FindByName(db, name) ==
  IF \E k \in DOMAIN db : db[k].name = name
  THEN db[CHOOSE k \in DOMAIN db :
            db[k].name = name /\ \A j \in 1..(k - 1) : db[j].name # name]
  ELSE NoTeamDoc

(* winnerTeam?._id?.toString() || fallback *)
IdOfName(db, name, fallback) ==
  IF FindByName(db, name).id # 0 THEN FindByName(db, name).id ELSE fallback

(* One iteration of the loop of EspnDataService.simulateSeries: one draw,   *)
(* for the luck factor.                                                     *)
EspnTurn(s, src) ==
  [s |-> GameStep(s, NextDraw(src), NextDraw(src)), src |-> Advance(src)]

RECURSIVE EspnRunSeries(_)
EspnRunSeries(n) ==
  IF ~SeriesContinues(n.s) THEN n
  ELSE CHOOSE out \in {EspnRunSeries(m) : m \in {EspnTurn(n.s, n.src)}} : TRUE

(* return { winner, seriesScore, games }: the winner is a name.  team1 and  *)
(* team2 are a history of who played, kept for the checks.                  *)
EspnSeriesResult(s) ==
  [winner |-> SeriesWinner(s).name, team1Wins |-> s.team1Wins,
   team2Wins |-> s.team2Wins, games |-> s.games,
   team1 |-> s.team1.ref, team2 |-> s.team2.ref]

(* simulateSeries(team1Id, team2Id, weights) *)
EspnSimulateSeries(db, team1Id, team2Id, src) ==
  LET team1 == FindById(db, team1Id)
      team2 == FindById(db, team2Id)
  IN IF team1.id = 0 \/ team2.id = 0
     THEN [ok |-> FALSE, error |-> "TeamsNotFound", src |-> src]
     ELSE CHOOSE out \in
            {[ok |-> TRUE, result |-> EspnSeriesResult(fin.s),
              src |-> fin.src] :
               fin \in {EspnRunSeries(
                          [s |-> SeriesStart("espn",
                                             Team(team1.id, team1.name,
                                                  team1.rating, 0),
                                             Team(team2.id, team2.name,
                                                  team2.rating, 0),
                                             TRUE, TRUE),
                           src |-> src])}} : TRUE

(* list.sort((a, b) => b.weightedRating - a.weightedRating): stable,        *)
(* descending by rating.                                                    *)
RECURSIVE InsertByRating(_, _)
InsertByRating(sorted, t) ==
  IF sorted = <<>> THEN <<t>>
  ELSE IF Head(sorted).weightedRating >= t.weightedRating
       THEN <<Head(sorted)>> \o InsertByRating(Tail(sorted), t)
       ELSE <<t>> \o sorted

RECURSIVE SortByRating(_)
SortByRating(teams) ==
  IF teams = <<>> THEN <<>>
  ELSE InsertByRating(SortByRating(SubSeq(teams, 1, Len(teams) - 1)),
                      teams[Len(teams)])

(* list.filter(t => t.conference === conference) *)
OfConference(list, conference) ==
  LET Test(t) == t.conference = conference IN SelectSeq(list, Test)

(* list.slice(0, n) *)
Slice(list, n) == SubSeq(list, 1, IF n < Len(list) THEN n ELSE Len(list))

PlayInSlice == 4

(* The three series of one conference in simulatePlayIn, last to first:     *)
(* the results of the three, and the source after them.  seeds are the four *)
(* ids the code names seed7, seed8, seed9, seed10.                          *)
EspnPlayInFinal(db, seeds, r78, r910) ==
  LET winner78Id == IdOfName(db, r78.result.winner, seeds[1])
      winner910Id == IdOfName(db, r910.result.winner, seeds[3])
      loser78Id == IF winner78Id = seeds[1] THEN seeds[2] ELSE seeds[1]
  IN CHOOSE out \in
       {[r78 |-> r78.result, r910 |-> r910.result, rFinal |-> rFinal.result,
         winner78Id |-> winner78Id,
         winnerFinalId |-> IdOfName(db, rFinal.result.winner, loser78Id),
         src |-> rFinal.src] :
          rFinal \in {EspnSimulateSeries(db, loser78Id, winner910Id,
                                         r910.src)}} : TRUE

EspnPlayIn910(db, seeds, r78) ==
  CHOOSE out \in
    {EspnPlayInFinal(db, seeds, r78, r910) :
       r910 \in {EspnSimulateSeries(db, seeds[3], seeds[4], r78.src)}} : TRUE

EspnPlayIn78(db, seeds, src) ==
  CHOOSE out \in
    {EspnPlayIn910(db, seeds, r78) :
       r78 \in {EspnSimulateSeries(db, seeds[1], seeds[2], src)}} : TRUE

(* confTeams.map(...).filter(...) of simulatePlayIn *)
UpdatedTeams(confTeams, seed7, winner78Id, winnerFinalId) ==
  LET mapped == [k \in DOMAIN confTeams |->
                   IF confTeams[k].id = seed7 \/ confTeams[k].id = winner78Id
                   THEN [confTeams[k] EXCEPT !.id = seed7]
                   ELSE confTeams[k]]
      Test(t) == t.id = seed7 \/ t.id = winnerFinalId
  IN SelectSeq(mapped, Test)

(* list.splice(list.findIndex(Found), count, ...items): findIndex gives -1  *)
(* when nothing is found, and splice then starts at the last element.       *)
Splice(list, found, count, items) ==
  LET hits == {k \in DOMAIN list : found[k]}
      at == IF hits = {} THEN Len(list)
            ELSE CHOOSE k \in hits : \A j \in hits : k <= j
  IN IF list = <<>> THEN items
     ELSE SubSeq(list, 1, at - 1) \o items \o SubSeq(list, at + count, Len(list))

(* The body of the loop of simulatePlayIn for one conference: playoffTeams  *)
(* after it, what was played, and the source after it.                      *)
EspnPlayInConference(db, playInTeams, playoffTeams, conference, src) ==
  LET confTeams == SortByRating(OfConference(playInTeams, conference))
      seeds == [k \in 1..PlayInSlice |-> confTeams[k].id]
  IN IF Len(confTeams) < PlayInSlice
     THEN [playoffTeams |-> playoffTeams, played |-> <<>>, src |-> src]
     ELSE CHOOSE out \in
            {[playoffTeams |->
                Splice(playoffTeams,
                       [k \in DOMAIN playoffTeams |->
                          /\ playoffTeams[k].conference = conference
                          /\ \E j \in 1..PlayInSlice :
                               seeds[j] = playoffTeams[k].id],
                       PlayInSlice,
                       UpdatedTeams(confTeams, seeds[1], pi.winner78Id,
                                    pi.winnerFinalId)),
              played |-> <<[conference |-> conference, seeds |-> seeds,
                            series |-> <<pi.r78, pi.r910, pi.rFinal>>]>>,
              src |-> pi.src] :
               pi \in {EspnPlayIn78(db, seeds, src)}} : TRUE

---------------------------------------------------------------------------
(* EspnDataService.simulateCurrentPlayoffs                                  *)

Conferences == <<"Eastern", "Western">>

PlayInPool == 10
DirectSeeds == 6
EspnBracketTeams == 8
FirstRoundSeries == 4
SemifinalSeries == 2

(* teams.map(team => ({ id, name, conference, weightedRating, ... }))       *)
(*      .filter(t => t.conference && t.weightedRating > 0)                  *)
PlayoffTeams(db) ==
  LET Test(t) == t.conference # "" /\ t.weightedRating > 0
  IN SelectSeq([k \in DOMAIN db |->
                  [id |-> db[k].id, name |-> db[k].name,
                   conference |-> db[k].conference,
                   weightedRating |-> db[k].rating]], Test)

(* The top 10 of a conference by rating. *)
ConferenceTeams(playoffTeams, conference) ==
  Slice(SortByRating(OfConference(playoffTeams, conference)), PlayInPool)

(* return playoffTeams.filter(t => t.conference &&                          *)
(*                                 ['Eastern', 'Western'].includes(...))    *)
InConferences(list) ==
  LET Test(t) == t.conference \in {"Eastern", "Western"}
  IN SelectSeq(list, Test)

(* top6 and playInWinners of one conference, concatenated. *)
FinalTeamsOf(conferenceTeams, updatedPlayoffTeams, conference) ==
  LET top6 == Slice(conferenceTeams[conference], DirectSeeds)
      Test(t) == /\ t.conference = conference
                 /\ ~\E k \in DOMAIN top6 : top6[k].id = t.id
  IN top6 \o SelectSeq(updatedPlayoffTeams, Test)

FinalPlayoffTeams(conferenceTeams, updatedPlayoffTeams) ==
  FinalTeamsOf(conferenceTeams, updatedPlayoffTeams, "Eastern")
    \o FinalTeamsOf(conferenceTeams, updatedPlayoffTeams, "Western")

(* list.find(t => t.name === name)?.weightedRating || 0 *)
RatingOfName(list, name) ==
  IF \E k \in DOMAIN list : list[k].name = name
  THEN list[CHOOSE k \in DOMAIN list :
              list[k].name = name /\ \A j \in 1..(k - 1) : list[j].name # name
           ].weightedRating
  ELSE 0

(* The team pushed for the next round after a series. *)
Advancing(db, list, result, conference, fallback) ==
  [id |-> IdOfName(db, result.winner, fallback), name |-> result.winner,
   conference |-> conference,
   weightedRating |-> RatingOfName(list, result.winner)]

(* rounds['Conference Finals'].find(r => r.winner &&                        *)
(*   this.teamModel.findOne({ name: r.winner, conference }))?.winner:       *)
(* findOne gives a query object, which is truthy whatever it would find, so *)
(* this is the first result with a winner; "" is undefined.                 *)
ChampionOf(conferenceFinals, conference) ==
  IF \E k \in DOMAIN conferenceFinals : conferenceFinals[k].winner # ""
  THEN conferenceFinals[
         CHOOSE k \in DOMAIN conferenceFinals :
           /\ conferenceFinals[k].winner # ""
           /\ \A j \in 1..(k - 1) : conferenceFinals[j].winner = ""].winner
  ELSE ""

NoRounds ==
  [firstRound |-> <<>>, semifinals |-> <<>>, conferenceFinals |-> <<>>,
   finals |-> <<>>]

EspnStart(db) ==
  [pc |-> "call", db |-> db, conferenceTeams |-> <<>>, playInTeams |-> <<>>,
   updatedPlayoffTeams |-> <<>>, played |-> <<>>, finalPlayoffTeams |-> <<>>,
   conf |-> 1, i |-> 0, confTeams |-> <<>>, round2Teams |-> <<>>,
   conferenceFinalsTeams |-> <<>>, rounds |-> NoRounds, champion |-> "",
   error |-> "", result |-> NoDoc]

(* The next conference of the bracket loop, or the finals after the last. *)
NextConference(e) ==
  IF e.conf < Len(Conferences)
  THEN [e EXCEPT !.pc = "conference", !.conf = @ + 1]
  ELSE [e EXCEPT !.pc = "finals"]

EspnThrew(e, error) == [e EXCEPT !.pc = "threw", !.error = error]

(* simulateCurrentPlayoffs(weights) up to the call of simulatePlayIn *)
EspnCall ==
  /\ esp.pc = "call"
  /\ \E conferenceTeams \in
          {[Eastern |-> ConferenceTeams(PlayoffTeams(esp.db), "Eastern"),
            Western |-> ConferenceTeams(PlayoffTeams(esp.db), "Western")]} :
       esp' = [esp EXCEPT
                 !.pc = "playin", !.conf = 1,
                 !.conferenceTeams = conferenceTeams,
                 !.playInTeams = conferenceTeams.Eastern
                                   \o conferenceTeams.Western,
                 !.updatedPlayoffTeams = conferenceTeams.Eastern
                                           \o conferenceTeams.Western]
  /\ UNCHANGED rng
  /\ UNCHANGED exceptEsp

(* One conference of simulatePlayIn; after the last, its return and the     *)
(* final playoff teams of both conferences.                                 *)
EspnPlayIn ==
  /\ esp.pc = "playin"
  /\ \E out \in {EspnPlayInConference(esp.db, esp.playInTeams,
                                      esp.updatedPlayoffTeams,
                                      Conferences[esp.conf],
                                      Source(RandomTape, rng))} :
       /\ rng' = out.src.pos
       /\ esp' =
            IF esp.conf < Len(Conferences)
            THEN [esp EXCEPT !.conf = @ + 1,
                             !.updatedPlayoffTeams = out.playoffTeams,
                             !.played = @ \o out.played]
            ELSE [esp EXCEPT
                    !.pc = "conference", !.conf = 1,
                    !.updatedPlayoffTeams = InConferences(out.playoffTeams),
                    !.played = @ \o out.played,
                    !.finalPlayoffTeams =
                      FinalPlayoffTeams(esp.conferenceTeams,
                                        InConferences(out.playoffTeams))]
  /\ UNCHANGED exceptEsp

(* The head of the bracket loop for one conference. *)
EspnConference ==
  /\ esp.pc = "conference"
  /\ \E confTeams \in
          {SortByRating(OfConference(esp.finalPlayoffTeams,
                                     Conferences[esp.conf]))} :
       esp' = IF Len(confTeams) >= EspnBracketTeams
              THEN [esp EXCEPT !.pc = "firstRound", !.i = 0,
                               !.confTeams = confTeams,
                               !.round2Teams = <<>>,
                               !.conferenceFinalsTeams = <<>>]
              ELSE NextConference([esp EXCEPT !.confTeams = confTeams])
  /\ UNCHANGED rng
  /\ UNCHANGED exceptEsp

(* First Round: confTeams[i] against confTeams[7 - i] *)
EspnFirstRound ==
  /\ esp.pc = "firstRound"
  /\ LET higherSeed == esp.confTeams[esp.i + 1].id
         lowerSeed == esp.confTeams[EspnBracketTeams - esp.i].id
     IN \E sr \in {EspnSimulateSeries(esp.db, higherSeed, lowerSeed,
                                      Source(RandomTape, rng))} :
          /\ rng' = sr.src.pos
          /\ esp' =
               IF ~sr.ok THEN EspnThrew(esp, sr.error)
               ELSE [esp EXCEPT
                       !.rounds.firstRound = Append(@, sr.result),
                       !.round2Teams =
                         Append(@, Advancing(esp.db, esp.confTeams, sr.result,
                                             Conferences[esp.conf],
                                             higherSeed)),
                       !.i = IF esp.i + 1 < FirstRoundSeries THEN @ + 1 ELSE 0,
                       !.pc = IF esp.i + 1 < FirstRoundSeries THEN @
                              ELSE "semifinals"]
  /\ UNCHANGED exceptEsp

(* Conference Semifinals: round2Teams[i] against round2Teams[3 - i] *)
EspnSemifinal ==
  /\ esp.pc = "semifinals"
  /\ LET team1 == esp.round2Teams[esp.i + 1].id
         team2 == esp.round2Teams[FirstRoundSeries - esp.i].id
     IN \E sr \in {EspnSimulateSeries(esp.db, team1, team2,
                                      Source(RandomTape, rng))} :
          /\ rng' = sr.src.pos
          /\ esp' =
               IF ~sr.ok THEN EspnThrew(esp, sr.error)
               ELSE [esp EXCEPT
                       !.rounds.semifinals = Append(@, sr.result),
                       !.conferenceFinalsTeams =
                         Append(@, Advancing(esp.db, esp.round2Teams,
                                             sr.result, Conferences[esp.conf],
                                             team1)),
                       !.i = IF esp.i + 1 < SemifinalSeries THEN @ + 1 ELSE 0,
                       !.pc = IF esp.i + 1 < SemifinalSeries THEN @
                              ELSE "conferenceFinals"]
  /\ UNCHANGED exceptEsp

(* Conference Finals, and on to the next conference *)
EspnConferenceFinal ==
  /\ esp.pc = "conferenceFinals"
  /\ \E sr \in {EspnSimulateSeries(esp.db, esp.conferenceFinalsTeams[1].id,
                                   esp.conferenceFinalsTeams[2].id,
                                   Source(RandomTape, rng))} :
       /\ rng' = sr.src.pos
       /\ esp' =
            IF ~sr.ok THEN EspnThrew(esp, sr.error)
            ELSE NextConference(
                   [esp EXCEPT !.rounds.conferenceFinals = Append(@, sr.result)])
  /\ UNCHANGED exceptEsp

(* NBA Finals: the return value, or the throw. *)
EspnFinals ==
  /\ esp.pc = "finals"
  /\ LET eastChampion == ChampionOf(esp.rounds.conferenceFinals, "Eastern")
         westChampion == ChampionOf(esp.rounds.conferenceFinals, "Western")
     IN IF eastChampion # "" /\ westChampion # ""
        THEN \E sr \in {EspnSimulateSeries(
                          esp.db, IdOfName(esp.db, eastChampion, 0),
                          IdOfName(esp.db, westChampion, 0),
                          Source(RandomTape, rng))} :
               /\ rng' = sr.src.pos
               /\ esp' =
                    IF ~sr.ok THEN EspnThrew(esp, sr.error)
                    ELSE [esp EXCEPT !.pc = "returned",
                                     !.rounds.finals = Append(@, sr.result),
                                     !.champion = sr.result.winner]
        ELSE /\ esp' = EspnThrew(esp, "NoConferenceChampions")
             /\ UNCHANGED rng
  /\ UNCHANGED exceptEsp

(* currentPlayoffSimulation: { offensive: weighting?.offensiveWeight ??     *)
(* 0.30, defensive: ... ?? 0.50, threePoint: ... ?? 0.20 }: the defaults    *)
(* for a weighting that is absent, the supplied values otherwise.           *)
ResolverWeights(weighting) ==
  LET w == IF weighting = <<>> THEN DefaultWeighting ELSE weighting[1]
  IN [offensive |-> w.offensiveWeight, defensive |-> w.defensiveWeight,
      threePoint |-> w.threePointWeight]

(* x || d for a number x: d for 0. *)
OrDefault(x, d) == IF x = 0 THEN d ELSE x

(* The three weights calculateWeightedRating computes with. *)
UsedWeights(weights) ==
  [offensiveWeight |-> OrDefault(weights.offensive, 30),
   defensiveWeight |-> OrDefault(weights.defensive, 50),
   threePointWeight |-> OrDefault(weights.threePoint, 20)]

(* EspnDataService.calculateWeightedRating *)
CalculateWeightedRating(team, weights) ==
  LET used == UsedWeights(weights)
  IN RatingFormula(team.offensiveRating, team.defensiveRating,
                   team.threePointPercentage, used.offensiveWeight,
                   used.defensiveWeight, used.threePointWeight)

(* { name: playoffResult.champion, weightedRating: 0, wins: 0, losses: 0 } *)
ChampionOnly(name) == [name |-> name, weightedRating |-> 0, wins |-> 0]

(* weighting || { offensiveWeight: 0, defensiveWeight: 0, threePointWeight: 0 } *)
ZeroWeighting ==
  [offensiveWeight |-> 0, defensiveWeight |-> 0, threePointWeight |-> 0]

(* The SimulationResult currentPlayoffSimulation builds from the champion   *)
(* simulateCurrentPlayoffs returned.                                        *)
SimplifiedResult(champion, weighting) ==
  [id |-> "espn-current-playoffs", season |-> "2024-2025", date |-> "now",
   conferences |->
     <<[name |-> "Eastern", rounds |-> <<>>, champion |-> ChampionOnly(champion)],
       [name |-> "Western", rounds |-> <<>>, champion |-> ChampionOnly(champion)]>>,
   champion |-> ChampionOnly(champion),
   weighting |-> IF weighting = <<>> THEN ZeroWeighting ELSE weighting[1]]

(* currentPlayoffSimulation(weighting) up to the call of                    *)
(* simulateCurrentPlayoffs: the argument of the query and the weights       *)
(* handed over.                                                             *)
ResolverCall(weighting) ==
  [weighting |-> weighting, weights |-> ResolverWeights(weighting)]

(* currentPlayoffSimulation(weighting) after simulateCurrentPlayoffs has    *)
(* returned: NotFoundException without a champion, the simplified result    *)
(* otherwise.                                                               *)
ResolverReturn ==
  /\ esp.pc = "returned"
  /\ esp' = IF esp.champion = "" THEN EspnThrew(esp, "NotFound")
            ELSE [esp EXCEPT !.pc = "resolved",
                             !.result = SimplifiedResult(esp.champion,
                                                         esp.weighting)]
  /\ UNCHANGED rng
  /\ UNCHANGED exceptEsp

---------------------------------------------------------------------------
(* Specification SpecSeries: one call of simulateSeries, game by game.      *)

TeamA == Team(1, "A", 12000, 50)
TeamB == Team(2, "B", 10000, 40)
TeamC == Team(3, "C", 10000, 40)
TeamZ == Team(4, "Z", 0, 0)
TeamY == Team(5, "Y", 0, 0)
TeamA2 == Team(6, "A", 10100, 49)    \* a second stat line of team A

(* The pairs a call is made with; a missing team is undefined in the code. *)
SimPairs ==
  { <<TeamA, TeamB>>, <<TeamB, TeamA>>, <<TeamB, TeamC>>, <<TeamZ, TeamY>>,
    <<TeamA, TeamA2>>, <<TeamA, NoTeam>>, <<NoTeam, TeamB>> }
EspnPairs ==
  { <<TeamA, TeamB>>, <<TeamB, TeamA>>, <<TeamB, TeamC>>, <<TeamA, TeamA>>,
    <<TeamA, NoTeam>> }

(* rand is the set of values the random source of the call can return:     *)
(* Draws for Math.random, one value for a source stubbed to return it.      *)
SourceDraws(rand) == rand

NoSeries == [pc |-> "none"]

NoPlayIn == [pc |-> "none"]

NoBracket == [pc |-> "none"]
NoEspn == [pc |-> "none"]
NoRating == [pc |-> "none"]
(* No collection is modelled: the stat lines of a run are given. *)
NoStats == [version |-> "none", teamstats |-> <<>>]
NoRuns == <<>>
RunIdle == run = NoRuns /\ store = <<>> /\ rng = 1 /\ stats = NoStats

InitSeries ==
  /\ pin = NoPlayIn
  /\ brk = NoBracket
  /\ esp = NoEspn
  /\ rat = NoRating
  /\ RunIdle
  /\ \E rand \in {Draws} \cup {{u} : u \in Draws} :
       \/ \E p \in SimPairs, luck \in BOOLEAN, home \in BOOLEAN :
            ser = [SeriesStart("sim", p[1], p[2], luck, home)
                     EXCEPT !.pc = "call"] @@ [rand |-> rand]
       \/ \E p \in EspnPairs :
            ser = [SeriesStart("espn", p[1], p[2], TRUE, TRUE)
                     EXCEPT !.pc = "call"] @@ [rand |-> rand]

(* if (!team1 || !team2) throw *)
SeriesCall ==
  /\ ser.pc = "call"
  /\ ser' = [ser EXCEPT !.pc = IF Present(ser.team1) /\ Present(ser.team2)
                               THEN "loop" ELSE "failed"]
  /\ UNCHANGED exceptSer

SeriesGame ==
  /\ ser.pc = "loop"
  /\ SeriesContinues(ser)
  /\ \E luckDraw \in SourceDraws(ser.rand), outDraw \in SourceDraws(ser.rand) :
       ser' = GameStep(ser, luckDraw, outDraw)
  /\ UNCHANGED exceptSer

SeriesReturn ==
  /\ ser.pc = "loop"
  /\ ~SeriesContinues(ser)
  /\ ser' = [ser EXCEPT !.pc = "done", !.result = SeriesResult(ser)]
  /\ UNCHANGED exceptSer

NextSeries == SeriesCall \/ SeriesGame \/ SeriesReturn

SpecSeries == InitSeries /\ [][NextSeries]_vars

---------------------------------------------------------------------------
(* Specification SpecPlayIn: one call of simulatePlayInTournament.          *)

(* A conference as splitTeamsByConference leaves it: teams in the order of  *)
(* the stat lines, here n teams of conference c with distinct wins.  The    *)
(* ratings do not follow the wins.                                          *)
TeamNames ==
  [Eastern |-> <<"E1", "E2", "E3", "E4", "E5", "E6", "E7", "E8", "E9",
                 "E10", "E11", "E12", "E13">>,
   Western |-> <<"W1", "W2", "W3", "W4", "W5", "W6", "W7", "W8", "W9",
                 "W10", "W11", "W12", "W13">>]
RefBase == [Eastern |-> 0, Western |-> 100]

ConfTeam(c, i) ==
  Team(RefBase[c] + i, TeamNames[c][i], 9000 + 500 * ((3 * i) % 7), 60 - 3 * i)

Rotate(list, k) ==
  [i \in 1..Len(list) |-> list[((i + k - 1) % Len(list)) + 1]]

ConfList(c, n, k) == Rotate([i \in 1..n |-> ConfTeam(c, i)], k)

(* Two teams level on wins: the sort keeps them in the order given. *)
TiedList ==
  [i \in 1..10 |-> [ConfTeam("Eastern", i) EXCEPT !.wins = 60 - 3 * ((i + 1) \div 2)]]

(* Ten teams of which the last four by wins have a rating of 0. *)
ZeroRatedList ==
  [i \in 1..10 |-> IF i <= 6 THEN ConfTeam("Eastern", i)
                   ELSE [ConfTeam("Eastern", i) EXCEPT !.weightedRating = 0]]

MaxConfTeams == 11
PlayInLists ==
  {ConfList("Eastern", n, k) : n \in (PlayInMinTeams - 1)..MaxConfTeams,
                               k \in {0, 1, 3, 4}}
    \cup {TiedList, Rotate(TiedList, 5), ZeroRatedList}

InitPlayIn ==
  /\ ser = NoSeries
  /\ brk = NoBracket
  /\ esp = NoEspn
  /\ rat = NoRating
  /\ RunIdle
  /\ \E teams \in PlayInLists :
       pin = [pc |-> "call", error |-> "", given |-> teams, teams |-> teams,
              sortedTeams |-> <<>>, games |-> <<>>, seeds |-> <<>>]

PlayInCall ==
  /\ pin.pc = "call"
  /\ pin' = PlayInEnter(pin.teams)
  /\ UNCHANGED exceptPin

PlayInFirst ==
  /\ pin.pc = "game1"
  /\ \E u \in Draws : pin' = PlayInGame1(pin, u)
  /\ UNCHANGED exceptPin

PlayInSecond ==
  /\ pin.pc = "game2"
  /\ \E u \in Draws : pin' = PlayInGame2(pin, u)
  /\ UNCHANGED exceptPin

PlayInThird ==
  /\ pin.pc = "game3"
  /\ \E u \in Draws : pin' = PlayInGame3(pin, u)
  /\ UNCHANGED exceptPin

NextPlayIn == PlayInCall \/ PlayInFirst \/ PlayInSecond \/ PlayInThird

SpecPlayIn == InitPlayIn /\ [][NextPlayIn]_vars

---------------------------------------------------------------------------
(* Specification SpecBracket: one call of simulateConferencePlayoffs, one   *)
(* series at a time.                                                        *)

(* The draws of one series: the source is at an arbitrary place. *)
SeriesTapes == {<<0>>, <<99>>, <<0, 99, 40>>}

(* The seeded lists a call is made with: 8 seeds as the play-in returns     *)
(* them, and lists of other lengths.                                        *)
MaxSeeds == 9
SeedList(c, n) == [i \in 1..n |-> ConfTeam(c, i)]
BracketCalls ==
  {<<c, SeedList(c, n)>> : c \in {"Eastern", "Western"},
                           n \in (BracketMinTeams - 1)..MaxSeeds}

InitBracket ==
  /\ ser = NoSeries
  /\ pin = NoPlayIn
  /\ esp = NoEspn
  /\ rat = NoRating
  /\ RunIdle
  /\ \E call \in BracketCalls, luck \in BOOLEAN, home \in BOOLEAN :
       brk = [BracketEnter(call[1], call[2], luck, home) EXCEPT !.pc = "call"]

BracketCall ==
  /\ brk.pc = "call"
  /\ brk' = BracketEnter(brk.name, brk.teams, brk.useLuckFactor,
                         brk.useHomeCourtAdvantage)
  /\ UNCHANGED exceptBrk

BracketPairing ==
  /\ brk.pc = "pairing"
  /\ \E tape \in SeriesTapes : brk' = BracketStep(brk, Source(tape, 1)).b
  /\ UNCHANGED exceptBrk

NextBracket == BracketCall \/ BracketPairing

SpecBracket == InitBracket /\ [][NextBracket]_vars

---------------------------------------------------------------------------
(* Specification Spec: one call of runSimulation against a collection that  *)
(* may already hold a simulation.                                           *)

StatLine(c, i) ==
  [teamName |-> TeamNames[c][i], conference |-> c,
   offensiveRating |-> 1 + (i % 2), defensiveRating |-> 1 + (i % 3),
   threePointPercentage |-> i % 4, wins |-> 30 + ((5 * i) % 12)]

(* What getTeamStats returns: ne Eastern lines, then nw Western lines. *)
StatLines(ne, nw) ==
  [k \in 1..(ne + nw) |->
     IF k <= ne THEN StatLine("Eastern", k) ELSE StatLine("Western", k - ne)]

(* A line whose team has no conference: mapToTeamStatsDTO says 'Unknown';   *)
(* a line with an empty conference.                                         *)
WithConference(lines, k, c) == [lines EXCEPT ![k] = [@ EXCEPT !.conference = c]]

(* A line whose defensiveRating is 0. *)
WithZeroDefence(lines, k) == [lines EXCEPT ![k] = [@ EXCEPT !.defensiveRating = 0]]

StatLists ==
  {StatLines(ne, nw) : ne \in {9, 10, MaxConfTeams}, nw \in {6, 10}}
    \cup {WithConference(StatLines(10, 10), 20, "Unknown"),
          WithConference(StatLines(11, 9), 1, ""),
          WithZeroDefence(StatLines(10, 10), 7)}

OptionalBoolean == {"absent", "true", "false"}

CustomWeighting ==
  [offensiveWeight |-> 50, defensiveWeight |-> 10, threePointWeight |-> 40]

RunInputs ==
  [season : {"2024-2025"}, date : {"absent", "d1"},
   weighting : {<<>>, <<CustomWeighting>>},
   useLuckFactor : OptionalBoolean, useHomeCourtAdvantage : OptionalBoolean]

(* A simulation saved by an earlier run. *)
OldDoc ==
  [id |-> 1, season |-> "2023-2024", date |-> "d0", conferences |-> <<>>,
   champion |-> TeamA, weighting |-> DefaultWeighting]

(* The calls of runSimulation in flight. *)
Runs == {1}

Init ==
  /\ ser = NoSeries
  /\ pin = NoPlayIn
  /\ brk = NoBracket
  /\ esp = NoEspn
  /\ rat = NoRating
  /\ stats = NoStats
  /\ run = [r \in Runs |-> IdleRun]
  /\ store \in {<<>>, <<OldDoc>>}
  /\ rng \in 1..Len(RandomTape)

Next ==
  \/ \E r \in Runs, input \in RunInputs : RunCall(r, input)
  \/ \E r \in Runs, teamStats \in StatLists : StatsResolve(r, teamStats)
  \/ \E r \in Runs : StatsReject(r)
  \/ \E r \in Runs : SaveResolve(r)
  \/ \E r \in Runs : SaveReject(r)

Spec == Init /\ [][Next]_vars

---------------------------------------------------------------------------
(* Specification SpecEspn: one call of simulateCurrentPlayoffs against a    *)
(* teams collection.                                                        *)

(* Team i of conference c with its rating; neighbours in rating are 0.02    *)
(* or 0.04 and more apart, on either side of the home bonus.                *)
EspnTeam(c, i) ==
  TeamDoc(RefBase[c] + i, TeamNames[c][i], c, 9000 + 200 * ((5 * i) % 12))

MaxEspnTeams == 12

(* ne Eastern and nw Western teams in the order of the collection. *)
League(ne, nw) ==
  [k \in 1..(ne + nw) |->
     IF k <= ne THEN EspnTeam("Eastern", k) ELSE EspnTeam("Western", k - ne)]

(* A team without a stat line, a team without a conference. *)
Leagues ==
  {League(ne, nw) : ne \in {7, 8, 10, MaxEspnTeams},
                    nw \in {3, 8, 10, MaxEspnTeams}}
    \cup {[League(10, 10) EXCEPT ![2].rating = 0, ![12].conference = ""]}

(* The weighting argument of the query: absent, or supplied, also with a    *)
(* weight of 0.                                                             *)
EspnWeightings ==
  {<<>>, <<CustomWeighting>>, <<[CustomWeighting EXCEPT !.threePointWeight = 0]>>}

InitEspn ==
  /\ ser = NoSeries
  /\ pin = NoPlayIn
  /\ brk = NoBracket
  /\ run = NoRuns
  /\ store = <<>>
  /\ rng \in 1..Len(RandomTape)
  /\ rat = NoRating
  /\ stats = NoStats
  /\ \E db \in Leagues, weighting \in EspnWeightings :
       esp = EspnStart(db) @@ ResolverCall(weighting)

NextEspn ==
  \/ EspnCall
  \/ EspnPlayIn
  \/ EspnConference
  \/ EspnFirstRound
  \/ EspnSemifinal
  \/ EspnConferenceFinal
  \/ EspnFinals
  \/ ResolverReturn

SpecEspn == InitEspn /\ [][NextEspn]_vars

---------------------------------------------------------------------------
(* Two calls of runSimulation in one process, with Math.random replaced by  *)
(* a source that can be set back to a position (SpecReplay)                 *)

ReplayRuns == {1, 2}

ReplayInputs ==
  {in \in RunInputs : /\ in.date = "d1"
                      /\ in.useHomeCourtAdvantage = "absent"
                      /\ in.useLuckFactor \in {"absent", "true"}}

ReplayStatLists == {StatLines(10, 10), WithZeroDefence(StatLines(10, 10), 7)}

(* The positions the source is set back to. *)
ReplayPositions == {1, 4}

InitReplay ==
  /\ ser = NoSeries
  /\ pin = NoPlayIn
  /\ brk = NoBracket
  /\ esp = NoEspn
  /\ rat = NoRating
  /\ stats = NoStats
  /\ run = [r \in ReplayRuns |-> IdleRun]
  /\ store = <<>>
  /\ rng \in ReplayPositions

(* Math.random is replaced by a source that starts at the position. *)
Reseed(pos) ==
  /\ rng' = pos
  /\ UNCHANGED <<run, store>>
  /\ UNCHANGED exceptRun

NextReplay ==
  \/ \E r \in ReplayRuns, input \in ReplayInputs : RunCall(r, input)
  \/ \E r \in ReplayRuns, teamStats \in ReplayStatLists : StatsResolve(r, teamStats)
  \/ \E r \in ReplayRuns : SaveResolve(r)
  \/ \E pos \in ReplayPositions : Reseed(pos)

SpecReplay == InitReplay /\ [][NextReplay]_vars

---------------------------------------------------------------------------
(* Specification SpecStats: runSimulation reading the teamstats collection  *)
(* through StatsService.getTeamStats, while EspnDataService.updateTeamStats *)
(* adds dated snapshots to it.                                              *)

(* The teams collection: 10 Eastern and 10 Western teams, by _id. *)
TeamDocs ==
  [k \in 1..20 |-> [name |-> StatLines(10, 10)[k].teamName,
                    conference |-> StatLines(10, 10)[k].conference]]

(* The days a document or a query is dated with: date: today in             *)
(* updateTeamStats, input.date || new Date() in runSimulation.              *)
FirstDay == 1
Today == 2

(* new this.teamStatsModel({ date, teamId, season, offensiveRating, ... }): *)
(* the document has no teamName and no conference of its own.               *)
TeamStatsDoc(teamId, season, date) ==
  [teamId |-> teamId, season |-> season, date |-> date,
   offensiveRating |-> StatLines(10, 10)[teamId].offensiveRating,
   defensiveRating |-> StatLines(10, 10)[teamId].defensiveRating,
   threePointPercentage |-> StatLines(10, 10)[teamId].threePointPercentage,
   wins |-> StatLines(10, 10)[teamId].wins]

(* for (const team of teams) { if (teamData) await teamStats.save() }: one  *)
(* document for each team found in the fetched data, in the order of teams. *)
RECURSIVE SnapshotDocs(_, _, _, _)
SnapshotDocs(teamId, found, season, date) ==
  IF teamId > Len(TeamDocs) THEN <<>>
  ELSE (IF teamId \in found THEN <<TeamStatsDoc(teamId, season, date)>> ELSE <<>>)
         \o SnapshotDocs(teamId + 1, found, season, date)

(* The version of StatsService of lines 143-283 populates teamId and cuts   *)
(* the result to filters.limit || 10; the version of lines 294-400 does     *)
(* neither.                                                                 *)
Versions == {"populating", "plain"}
DefaultLimit == 10

(* if (filters.season) query.season = ...; if (filters.date) query.date =   *)
(* { $lte: filters.date }                                                   *)
Matches(doc, filters) == doc.season = filters.season /\ doc.date <= filters.date

RECURSIVE Find(_, _)
Find(docs, filters) ==
  IF docs = <<>> THEN <<>>
  ELSE (IF Matches(Head(docs), filters) THEN <<Head(docs)>> ELSE <<>>)
         \o Find(Tail(docs), filters)

RECURSIVE Reverse(_)
Reverse(list) ==
  IF list = <<>> THEN <<>> ELSE Append(Reverse(Tail(list)), Head(list))

RECURSIVE OfDate(_, _)
OfDate(docs, date) ==
  IF docs = <<>> THEN <<>>
  ELSE (IF Head(docs).date = date THEN <<Head(docs)>> ELSE <<>>)
         \o OfDate(Tail(docs), date)

(* .sort({ date: -1 }): the latest date first.  The order of documents of   *)
(* one date is not specified: it is the order of insertion or its reverse.  *)
RECURSIVE SortByDateDescending(_, _, _)
SortByDateDescending(docs, date, tie) ==
  IF date < FirstDay THEN <<>>
  ELSE (IF tie = "inserted" THEN OfDate(docs, date) ELSE Reverse(OfDate(docs, date)))
         \o SortByDateDescending(docs, date - 1, tie)

(* .limit(n) *)
Limit(docs, n) == SubSeq(docs, 1, IF Len(docs) < n THEN Len(docs) ELSE n)

(* mapToTeamStatsDTO: teamName: stat.teamId?.name || 'Unknown' and          *)
(* conference: stat.teamId?.conference || 'Unknown' on a populated          *)
(* document; teamName: stat.teamName and conference: stat.conference, both  *)
(* undefined, on a plain one.                                               *)
MapToTeamStatsDTO(version, stat) ==
  [teamId |-> stat.teamId,
   teamName |-> IF version = "populating" THEN TeamDocs[stat.teamId].name ELSE "",
   conference |-> IF version = "populating" THEN TeamDocs[stat.teamId].conference
                  ELSE "",
   season |-> stat.season, date |-> stat.date,
   offensiveRating |-> stat.offensiveRating,
   defensiveRating |-> stat.defensiveRating,
   threePointPercentage |-> stat.threePointPercentage,
   wins |-> stat.wins]

(* StatsService.getTeamStats(filters), in either version *)
GetTeamStats(version, docs, filters, tie) ==
  LET sorted == SortByDateDescending(Find(docs, filters), Today, tie)
      found == IF version = "populating" THEN Limit(sorted, DefaultLimit)
               ELSE sorted
  IN [k \in 1..Len(found) |-> MapToTeamStatsDTO(version, found[k])]

(* getTeamStats({ season: input.season, date }) with                        *)
(* date = input.date || new Date()                                          *)
FiltersOf(input) ==
  [season |-> input.season,
   date |-> IF input.date = "absent" THEN Today ELSE FirstDay]

(* The teams for which fetchTeamStatsData has a line: all of them, or the   *)
(* first six.                                                               *)
FoundTeams == {1..20, 1..6}
Seasons == {"2024-2025", "2023-2024"}
MaxStoredStats == 46

StatsInputs ==
  {in \in RunInputs : /\ in.weighting = <<>>
                      /\ in.useLuckFactor = "absent"
                      /\ in.useHomeCourtAdvantage = "absent"}

InitStats ==
  /\ ser = NoSeries
  /\ pin = NoPlayIn
  /\ brk = NoBracket
  /\ esp = NoEspn
  /\ rat = NoRating
  /\ run = [r \in Runs |-> IdleRun]
  /\ store = <<>>
  /\ rng = 1
  /\ \E version \in Versions :
       stats = [version |-> version,
                teamstats |-> SnapshotDocs(1, 1..20, "2024-2025", FirstDay)]

(* updateTeamStats(season): today's snapshot is added to the collection. *)
UpdateTeamStats(season, found) ==
  /\ Len(stats.teamstats) + Cardinality(found) <= MaxStoredStats
  /\ stats' = [stats EXCEPT !.teamstats = @ \o SnapshotDocs(1, found, season, Today)]
  /\ UNCHANGED exceptStats

(* await this.statsService.getTeamStats(...) resolves with what the query   *)
(* finds in the collection.                                                 *)
StatsQuery(r, tie) ==
  /\ stats.version \in Versions
  /\ StatsResolve(r, GetTeamStats(stats.version, stats.teamstats, FiltersOf(run[r].input), tie))

NextStats ==
  \/ \E r \in Runs, input \in StatsInputs : RunCall(r, input)
  \/ \E r \in Runs, tie \in {"inserted", "reversed"} : StatsQuery(r, tie)
  \/ \E season \in Seasons, found \in FoundTeams : UpdateTeamStats(season, found)

SpecStats == InitStats /\ [][NextStats]_vars

---------------------------------------------------------------------------
(* The rating of one stat line in both services (SpecRating)                *)

(* The stat lines and the optional weightings a rating is computed for. *)
RatingStats ==
  {[StatLine("Eastern", 1) EXCEPT !.offensiveRating = off,
                                  !.defensiveRating = def,
                                  !.threePointPercentage = tp] :
     off \in {1, 2}, def \in {0, 1, 3}, tp \in {0, 2}}

RatingWeightings ==
  {<<>>} \cup
  {<<[offensiveWeight |-> ow, defensiveWeight |-> dw, threePointWeight |-> tw]>> :
     ow \in {0, 30, 50}, dw \in {0, 10, 50}, tw \in {0, 20}}

InitRating ==
  /\ ser = NoSeries
  /\ pin = NoPlayIn
  /\ brk = NoBracket
  /\ esp = NoEspn
  /\ RunIdle
  /\ \E stat \in RatingStats, weighting \in RatingWeightings :
       rat = [pc |-> "call", stat |-> stat, weighting |-> weighting,
              rating |-> 0]

(* runSimulation's weighting and calculateTeamRatings for the one line. *)
RateSimulation ==
  /\ rat.pc = "call"
  /\ rat' = [rat EXCEPT
       !.pc = "simulation",
       !.rating = CalculateTeamRatings(<<rat.stat>>, WeightingOf(rat))[1]
                    .weightedRating]
  /\ UNCHANGED exceptRat

(* currentPlayoffSimulation's weights and calculateWeightedRating for the   *)
(* latest stat line of a team.                                              *)
RateEspn ==
  /\ rat.pc = "call"
  /\ rat' = [rat EXCEPT
       !.pc = "espn",
       !.rating = CalculateWeightedRating(rat.stat,
                                          ResolverWeights(rat.weighting))]
  /\ UNCHANGED exceptRat

NextRating == RateSimulation \/ RateEspn

SpecRating == InitRating /\ [][NextRating]_vars

---------------------------------------------------------------------------
(* Properties of a series (checked under SpecSeries)                        *)

(* C1: for every call with two present teams, any flags and any draws, the  *)
(* loop stops after at least 4 and at most 7 games; the result has exactly  *)
(* one side at 4 wins and the other in 0..3, a game log as long as the two  *)
(* win counts together, and winner is the side with 4 wins.                 *)
C1_SeriesTerminationBound ==
  /\ ser.pc = "loop" =>
       /\ Len(ser.games) <= 7
       /\ ~SeriesContinues(ser) => Len(ser.games) >= 4
  /\ ser.pc = "done" =>
       LET r == ser.result IN
         /\ Len(r.games) \in 4..7
         /\ Len(r.games) = r.team1Wins + r.team2Wins
         /\ \/ r.team1Wins = 4 /\ r.team2Wins \in 0..3 /\ r.winner = r.team1
            \/ r.team2Wins = 4 /\ r.team1Wins \in 0..3 /\ r.winner = r.team2

C1_Witness ==
  /\ ser.pc = "done"
  /\ ser.svc = "sim"
  /\ Len(ser.result.games) = 7
  /\ ser.result.team2Wins = 4
  /\ ser.result.winner = ser.team2

(* C7: with useHomeCourtAdvantage set, in every game g reached the record's *)
(* home flag is true exactly for g in {1,2,5,7}, and the 0.03 bonus goes to *)
(* team A's effective rating in those games and to team B's in games 3, 4   *)
(* and 6.                                                                   *)
C7_HomeCourtSchedule ==
  (ser.pc \in {"loop", "done"} /\ ser.useHomeCourtAdvantage) =>
    \A i \in 1..Len(ser.games) :
      LET g == ser.games[i].gameNumber IN
        /\ ser.games[i].homeTeam = (g \in {1, 2, 5, 7})
        /\ g \in {1, 2, 5, 7} => ser.bonus[i] = <<300, 0>>
        /\ g \in {3, 4, 6} => ser.bonus[i] = <<0, 300>>

C7_Witness ==
  /\ ser.pc = "done"
  /\ ser.svc = "sim"
  /\ ser.useHomeCourtAdvantage
  /\ Len(ser.games) = 7
  /\ ser.games[6].homeTeam = FALSE
  /\ ser.games[7].homeTeam = TRUE

(* C8: with useLuckFactor and useHomeCourtAdvantage both off no home bonus  *)
(* is added to either team in any game, so team A wins a game exactly when  *)
(* the draw is below ratingA / (ratingA + ratingB); for 1.20 against 1.00   *)
(* and every draw 0.4 the series is 4-0 with exactly 4 game records.        *)
C8_NoBonusWhenFlagsOff ==
  (/\ ser.svc = "sim"
   /\ ser.pc \in {"loop", "done"}
   /\ ~ser.useLuckFactor
   /\ ~ser.useHomeCourtAdvantage) =>
    /\ \A i \in 1..Len(ser.bonus) : ser.bonus[i] = <<0, 0>>
    /\ (ser.pc = "loop" /\ SeriesContinues(ser)
          /\ ser.team1.weightedRating + ser.team2.weightedRating > 0) =>
         \A u \in Draws :
           SimTeam1Scores(ser, 0, u) <=>
             u * (ser.team1.weightedRating + ser.team2.weightedRating)
               < 100 * ser.team1.weightedRating
    /\ (ser.pc = "done" /\ ser.rand = {40}
          /\ ser.team1 = TeamA /\ ser.team2 = TeamB) =>
         /\ ser.result.team1Wins = 4
         /\ ser.result.team2Wins = 0
         /\ Len(ser.result.games) = 4

---------------------------------------------------------------------------
(* Properties of a conference bracket (checked under SpecBracket)           *)

(* The series of round r recorded so far. *)
RoundSeries(b, r) ==
  IF r <= Len(b.rounds) THEN b.rounds[r].series
  ELSE IF r = b.round THEN b.seriesResults
  ELSE <<>>

(* The place of a team in the seeded list the bracket was called with. *)
SeedOf(b, t) == CHOOSE k \in 1..Len(b.teams) : b.teams[k].ref = t.ref

Winners(series) == [k \in 1..Len(series) |-> series[k].winner]

Started(b) == b.pc \in {"pairing", "done", "failed"}

(* C2: in round 1 the series are seed 1 v 8, 2 v 7, 3 v 6 and 4 v 5: index  *)
(* i of the 8-team seeded list plays index 7-i.                             *)
C2_RoundOnePairing ==
  (Started(brk) /\ Len(brk.teams) = 8) =>
    \A k \in 1..Len(RoundSeries(brk, 1)) :
      /\ RoundSeries(brk, 1)[k].team1 = brk.teams[k]
      /\ RoundSeries(brk, 1)[k].team2 = brk.teams[9 - k]

(* C3: in rounds 2 and 3 the survivors, in seed order, are paired index i   *)
(* against index count-1-i, so the highest surviving seed plays the lowest. *)
C3_LaterRoundPairing ==
  (Started(brk) /\ Len(brk.teams) = 8) =>
    \A r \in {2, 3} :
      LET entrants == Winners(RoundSeries(brk, r - 1))
          series == RoundSeries(brk, r)
      IN \A k \in 1..Len(series) :
           /\ series[k].team1 = entrants[k]
           /\ series[k].team2 = entrants[Len(entrants) + 1 - k]
           /\ k = 1 =>
                /\ \A e \in 1..Len(entrants) :
                     SeedOf(brk, series[1].team1) <= SeedOf(brk, entrants[e])
                /\ \A e \in 1..Len(entrants) :
                     SeedOf(brk, series[1].team2) >= SeedOf(brk, entrants[e])

(* The teams of the series of a round, in the order they play. *)
RECURSIVE Entrants(_)
Entrants(series) ==
  IF series = <<>> THEN <<>>
  ELSE <<Head(series).team1, Head(series).team2>> \o Entrants(Tail(series))

Refs(list) == {list[k].ref : k \in 1..Len(list)}

(* C4: on 8 seeded teams round r has 4, 2 and 1 series for r = 1, 2, 3; the *)
(* teams of round r+1 are exactly the winners of round r, each once; and    *)
(* the run yields one champion, the winner of the round-3 series.           *)
C4_BracketShape ==
  (Len(brk.teams) = 8 /\ Started(brk)) =>
    /\ brk.pc # "failed"
    /\ \A r \in 1..Len(brk.rounds) :
         /\ brk.rounds[r].round = r
         /\ Len(brk.rounds[r].series) = CASE r = 1 -> 4 [] r = 2 -> 2 [] r = 3 -> 1
    /\ \A r \in 1..2 :
         LET next == Entrants(RoundSeries(brk, r + 1))
             won == Winners(RoundSeries(brk, r))
         IN /\ Refs(next) \subseteq Refs(won)
            /\ Cardinality(Refs(next)) = Len(next)
            /\ r + 1 <= Len(brk.rounds) => Refs(next) = Refs(won)
    /\ brk.pc = "done" =>
         /\ Len(brk.rounds) = 3
         /\ brk.champion = brk.rounds[3].series[1].winner
         /\ Present(brk.champion)

C4_Witness ==
  /\ brk.pc = "done"
  /\ Len(brk.teams) = 8
  /\ Len(brk.rounds) = 3
  /\ brk.champion = brk.teams[8]

---------------------------------------------------------------------------
(* Properties of runSimulation (checked under Spec)                         *)

(* The series of a saved document, and all their game records. *)
RoundsOf(doc) ==
  UNION {{doc.conferences[c].rounds[k] : k \in DOMAIN doc.conferences[c].rounds} :
           c \in DOMAIN doc.conferences}

DocSeries(doc) ==
  UNION {{rd.series[j] : j \in DOMAIN rd.series} : rd \in RoundsOf(doc)}

SeriesOfRun(rn) == DocSeries(rn.doc) \cup {rn.finals}

GamesOf(series) == UNION {{sr.games[g] : g \in DOMAIN sr.games} : sr \in series}

Built(rn) == rn.pc \in {"awaitSave", "returned"}

(* C9: in every run that has built its document, the home-court flag the    *)
(* caller supplied is the one every conference series and the finals were   *)
(* played with: supplied true, game 1 of each series is a home game of      *)
(* team 1; supplied false, no game record of the run has its home flag      *)
(* true; and only with no value supplied does the default true apply.       *)
C9_FlagsPassedUnchanged ==
  \A r \in Runs :
    Built(run[r]) =>
      LET asked == run[r].input.useHomeCourtAdvantage
          used == IF asked = "absent" THEN TRUE ELSE asked = "true"
      IN /\ \A sr \in SeriesOfRun(run[r]) : sr.games[1].homeTeam = used
         /\ asked = "false" =>
              \A g \in GamesOf(SeriesOfRun(run[r])) : ~g.homeTeam

(* The finals series of a run has been played to its end. *)
FinalsCompleted(rn) ==
  /\ rn.finals # <<>>
  /\ WinsNeeded \in {rn.finals.team1Wins, rn.finals.team2Wins}

(* C10: a run that has thrown, at whatever stage, has returned no result    *)
(* and the collection of saved simulations is what it was when the run      *)
(* began; while a run is still at work nothing is saved or returned, and    *)
(* the save is awaited only with the finals played to their end; and        *)
(* the collection differs from what it was only by the one document of a    *)
(* run that has returned, whose finals series was played to its end and     *)
(* whose champion is the winner of that series.                             *)
C10_NoPartialResult ==
  \A r \in Runs :
    /\ run[r].pc = "threw" =>
         run[r].result = NoDoc /\ store = run[r].storeBefore
    /\ run[r].pc \in {"awaitStats", "awaitSave"} =>
         run[r].result = NoDoc /\ store = run[r].storeBefore
    /\ run[r].pc = "awaitSave" => FinalsCompleted(run[r])
    /\ (run[r].pc # "idle" /\ store # run[r].storeBefore) =>
         /\ run[r].pc = "returned"
         /\ FinalsCompleted(run[r])
         /\ Len(store) = Len(run[r].storeBefore) + 1
         /\ SubSeq(store, 1, Len(run[r].storeBefore)) = run[r].storeBefore
         /\ store[Len(store)].champion = run[r].finals.winner
         /\ run[r].result = MapToSimulationResult(store[Len(store)])

(* A run whose save failed after the finals were played, against a          *)
(* collection that already held a simulation.                               *)
C10_Witness ==
  \E r \in Runs :
    /\ run[r].pc = "threw"
    /\ run[r].error.stage = "save"
    /\ FinalsCompleted(run[r])
    /\ store = <<OldDoc>>

---------------------------------------------------------------------------
(* Properties of the play-in and of the finals in both services             *)
(* (SimulationService under SpecPlayIn and Spec, EspnDataService under      *)
(* SpecEspn)                                                                *)

(* simulatePlayInTournament has returned: three games were played, 7th      *)
(* against 8th, 9th against 10th, the loser of the first against the winner *)
(* of the second, and the list returned is the first six in order, the      *)
(* winner of the first game and the winner of the third.                    *)
SimPlayInAsClaimed ==
  pin.pc = "done" =>
    LET seeded == pin.sortedTeams
        g == pin.games
        loser1 == IF g[1].winner.ref = seeded[7].ref THEN seeded[8]
                  ELSE seeded[7]
    IN /\ Len(g) = 3
       /\ g[1].team1 = seeded[7] /\ g[1].team2 = seeded[8]
       /\ g[2].team1 = seeded[9] /\ g[2].team2 = seeded[10]
       /\ g[3].team1 = loser1 /\ g[3].team2 = g[2].winner
       /\ \A k \in 1..3 : g[k].winner \in {g[k].team1, g[k].team2}
       /\ pin.seeds = SubSeq(seeded, 1, 6) \o <<g[1].winner, g[3].winner>>

(* The names of a list of teams, in order. *)
NamesOf(list) == [k \in DOMAIN list |-> list[k].name]

(* simulatePlayIn has returned: in each conference with ten teams, each of  *)
(* the three contests was a single game, they were 7th against 8th, 9th     *)
(* against 10th and the loser of the first against the winner of the        *)
(* second, and the conference's teams after it are its first six in order,  *)
(* the winner of the first contest and the winner of the third.             *)
EspnPlayInAsClaimed ==
  esp.pc \notin {"none", "call", "playin"} =>
    \A k \in DOMAIN esp.played :
      LET p == esp.played[k]
          pool == esp.conferenceTeams[p.conference]
          loser1 == IF p.series[1].winner = pool[7].name THEN pool[8].id
                    ELSE pool[7].id
      IN Len(pool) = PlayInPool =>
           /\ \A j \in 1..3 : Len(p.series[j].games) = 1
           /\ p.series[1].team1 = pool[7].id /\ p.series[1].team2 = pool[8].id
           /\ p.series[2].team1 = pool[9].id /\ p.series[2].team2 = pool[10].id
           /\ p.series[3].team1 = loser1
           /\ FindById(esp.db, p.series[3].team2).name = p.series[2].winner
           /\ NamesOf(OfConference(esp.updatedPlayoffTeams, p.conference))
                = NamesOf(SubSeq(pool, 1, 6))
                    \o <<p.series[1].winner, p.series[3].winner>>

(* C5: in both services the play-in of a conference is three single games,  *)
(* 7th v 8th, 9th v 10th, loser of the first v winner of the second, and    *)
(* the list after it is seeds 1-6 in order, then the winner of the first    *)
(* game and the winner of the third.                                        *)
C5_PlayInThreeSingleGames == SimPlayInAsClaimed /\ EspnPlayInAsClaimed

(* The finals of runSimulation: the Eastern champion against the Western    *)
(* champion, each the winner of its conference's round 3 series, two        *)
(* different teams, and the champion of the document is the winner.         *)
SimFinalsAsClaimed ==
  \A r \in DOMAIN run :
    Built(run[r]) =>
      LET east == run[r].doc.conferences[1]
          west == run[r].doc.conferences[2]
          f == run[r].finals
      IN /\ east.name = "Eastern" /\ west.name = "Western"
         /\ east.champion = east.rounds[BracketRounds].series[1].winner
         /\ west.champion = west.rounds[BracketRounds].series[1].winner
         /\ f.team1 = east.champion /\ f.team2 = west.champion
         /\ f.team1.ref # f.team2.ref
         /\ WinsNeeded \in {f.team1Wins, f.team2Wins}
         /\ run[r].doc.champion = f.winner

(* The finals of simulateCurrentPlayoffs: the winner of the Eastern         *)
(* Conference Finals against the winner of the Western, two different       *)
(* teams, and the champion returned is the winner.                          *)
EspnFinalsAsClaimed ==
  esp.pc = "returned" =>
    LET f == esp.rounds.finals[1]
        cf == esp.rounds.conferenceFinals
        team1 == FindById(esp.db, f.team1)
        team2 == FindById(esp.db, f.team2)
    IN /\ team1.conference = "Eastern" /\ team2.conference = "Western"
       /\ \E k \in DOMAIN cf : cf[k].winner = team1.name
       /\ \E k \in DOMAIN cf : cf[k].winner = team2.name
       /\ f.team1 # f.team2
       /\ WinsNeeded \in {f.team1Wins, f.team2Wins}
       /\ esp.champion = f.winner

(* C6: in both services the finals is one series between the Eastern and   *)
(* the Western conference champion, two different teams, each the winner    *)
(* of its conference's last series, and the overall champion is the winner  *)
(* of that series.                                                          *)
C6_FinalsBetweenChampions == SimFinalsAsClaimed /\ EspnFinalsAsClaimed

---------------------------------------------------------------------------
(* Properties of the order of the stages (SimulationService under Spec and  *)
(* SpecBracket, EspnDataService under SpecEspn)                             *)

(* A document built by runSimulation holds, for each conference, rounds 1,  *)
(* 2 and 3 in order, each round played by the winners of the round before,  *)
(* and the finals were played by the winners of the two round 3 series.     *)
SimStagesInOrder ==
  \A r \in DOMAIN run :
    Built(run[r]) =>
      /\ \A c \in DOMAIN run[r].doc.conferences :
           LET rounds == run[r].doc.conferences[c].rounds
           IN /\ Len(rounds) = BracketRounds
              /\ \A k \in 1..BracketRounds : rounds[k].round = k
              /\ \A k \in 2..BracketRounds :
                   Refs(Entrants(rounds[k].series))
                     = Refs(Winners(rounds[k - 1].series))
      /\ \A c \in DOMAIN run[r].doc.conferences :
           \E t \in {run[r].finals.team1, run[r].finals.team2} :
             t = run[r].doc.conferences[c].rounds[BracketRounds].series[1].winner

(* In a bracket call no series of a round is recorded before all series of  *)
(* the round before are.                                                    *)
BracketStagesInOrder ==
  Started(brk) =>
    \A k \in 2..BracketRounds :
      RoundSeries(brk, k) # <<>> =>
        /\ k - 1 <= Len(brk.rounds)
        /\ 2 * Len(RoundSeries(brk, k - 1)) = Len(Entrants(RoundSeries(brk, k - 1)))
        /\ Refs(Entrants(RoundSeries(brk, k)))
             \subseteq Refs(Winners(RoundSeries(brk, k - 1)))

(* The series of a list played by teams of a conference. *)
EspnSeriesOf(list, conference) ==
  LET Test(sr) == FindById(esp.db, sr.team1).conference = conference
  IN SelectSeq(list, Test)

(* In simulateCurrentPlayoffs a conference's first round is played after    *)
(* its play-in, its semifinals after its four first-round series, its       *)
(* conference finals after its two semifinals, and the finals after the     *)
(* conference finals of both conferences.                                   *)
EspnStagesInOrder ==
  esp.pc # "none" =>
    /\ \A k \in DOMAIN Conferences :
         LET c == Conferences[k]
             first == EspnSeriesOf(esp.rounds.firstRound, c)
             semis == EspnSeriesOf(esp.rounds.semifinals, c)
             finals == EspnSeriesOf(esp.rounds.conferenceFinals, c)
         IN /\ first # <<>> =>
                 /\ esp.pc \notin {"call", "playin"}
                 /\ \E j \in DOMAIN esp.played : esp.played[j].conference = c
            /\ semis # <<>> => Len(first) = FirstRoundSeries
            /\ finals # <<>> => Len(semis) = SemifinalSeries
    /\ esp.rounds.finals # <<>> =>
         \A k \in DOMAIN Conferences :
           Len(EspnSeriesOf(esp.rounds.conferenceFinals, Conferences[k])) = 1

(* C11: within one run the stages happen in the order ratings, play-in,     *)
(* round 1, round 2, round 3, finals and none is skipped: no series of      *)
(* round k of a conference before its play-in and all of its round k-1      *)
(* series, and no finals series before both conference champions are known. *)
C11_StagesInOrder ==
  SimStagesInOrder /\ BracketStagesInOrder /\ EspnStagesInOrder

---------------------------------------------------------------------------
(* Properties of the guards of the play-in and of the bracket               *)
(* (SimulationService under SpecPlayIn and SpecBracket, EspnDataService     *)
(* under SpecEspn)                                                          *)

(* simulatePlayInTournament called with fewer than 10 teams has failed with *)
(* InsufficientTeams, with no game played, no seed returned and the list it *)
(* was given untouched.                                                     *)
SimPlayInGuarded ==
  (pin.pc \notin {"none", "call"} /\ Len(pin.given) < PlayInMinTeams) =>
    /\ pin.pc = "failed"
    /\ pin.error = "InsufficientTeams"
    /\ pin.games = <<>>
    /\ pin.seeds = <<>>
    /\ pin.teams = pin.given

(* simulatePlayIn, for a conference with fewer than 10 teams, plays no      *)
(* play-in contest, and once that conference's turn has passed the run has  *)
(* failed with InsufficientTeams.                                           *)
EspnPlayInGuarded ==
  esp.pc \notin {"none", "call"} =>
    \A k \in DOMAIN Conferences :
      Len(esp.conferenceTeams[Conferences[k]]) < PlayInMinTeams =>
        /\ \A j \in DOMAIN esp.played :
             esp.played[j].conference # Conferences[k]
        /\ (esp.pc # "playin" \/ esp.conf > k) =>
             esp.pc = "threw" /\ esp.error = "InsufficientTeams"

(* C12: the play-in of a conference given fewer than 10 teams fails with    *)
(* InsufficientTeams before any play-in game is simulated and returns no    *)
(* seed list, not even seeds 1-6.                                           *)
C12_PlayInNeedsTenTeams == SimPlayInGuarded /\ EspnPlayInGuarded

(* simulateConferencePlayoffs called with a list that is not of 8 teams has *)
(* failed with InsufficientTeams, with no series played and no champion.    *)
SimBracketGuarded ==
  (Started(brk) /\ Len(brk.teams) # BracketMinTeams) =>
    /\ brk.pc = "failed"
    /\ brk.error = "InsufficientTeams"
    /\ brk.rounds = <<>>
    /\ brk.seriesResults = <<>>
    /\ ~Present(brk.champion)

(* simulateCurrentPlayoffs, for a conference whose final playoff teams are  *)
(* not 8, plays no series of that conference, and once the conference's     *)
(* turn in the bracket loop has come the run has failed with                *)
(* InsufficientTeams and has no champion.                                   *)
EspnBracketGuarded ==
  esp.pc \notin {"none", "call", "playin"} =>
    \A k \in DOMAIN Conferences :
      Len(OfConference(esp.finalPlayoffTeams, Conferences[k]))
          # EspnBracketTeams =>
        /\ EspnSeriesOf(esp.rounds.firstRound, Conferences[k]) = <<>>
        /\ (esp.conf > k \/ (esp.conf = k /\ esp.pc # "conference")) =>
             /\ esp.pc = "threw"
             /\ esp.error = "InsufficientTeams"
             /\ esp.champion = ""

---------------------------------------------------------------------------
(* Properties of the ratings (SimulationService under Spec)                 *)

(* The teams of the series of a run: both sides of every series. *)
TeamsOfRun(rn) ==
  UNION {{sr.team1, sr.team2, sr.winner} : sr \in SeriesOfRun(rn)}

(* C14: no team with an infinite or NaN weightedRating is produced and      *)
(* passed on to the play-in or the bracket: in every run that has built its *)
(* document, every team of every series of the run, the champions and the   *)
(* overall champion included, has a finite weightedRating (a stat line      *)
(* whose defensiveRating is 0 has made the run throw before).               *)
C14_NoInfiniteRating ==
  \A r \in Runs :
    Built(run[r]) =>
      /\ \A t \in TeamsOfRun(run[r]) : IsFinite(t.weightedRating)
      /\ \A c \in DOMAIN run[r].doc.conferences :
           IsFinite(run[r].doc.conferences[c].champion.weightedRating)
      /\ IsFinite(run[r].doc.champion.weightedRating)

---------------------------------------------------------------------------
(* Properties of the split into conferences (Spec)                          *)

(* The teams of the series of one conference of a document. *)
TeamsOfConference(conference) ==
  UNION {UNION {{rd.series[j].team1, rd.series[j].team2} : j \in DOMAIN rd.series} :
           rd \in {conference.rounds[k] : k \in DOMAIN conference.rounds}}

(* C21: a run whose stat lines include one with a conference that is        *)
(* missing or is neither 'Eastern' nor 'Western' has failed once the stat   *)
(* lines are in; and in every run that has built its document each team of  *)
(* a conference's series has that conference on its stat line, so no team   *)
(* is in the Western conference by default.                                 *)
C21_ConferenceRequired ==
  \A r \in Runs :
    /\ (run[r].teamStats # <<>>
          /\ \E k \in DOMAIN run[r].teamStats :
               run[r].teamStats[k].conference \notin {"Eastern", "Western"})
         => run[r].pc = "threw"
    /\ Built(run[r]) =>
         \A c \in DOMAIN run[r].doc.conferences :
           \A t \in TeamsOfConference(run[r].doc.conferences[c]) :
             run[r].teamStats[t.ref].conference
               = run[r].doc.conferences[c].name

---------------------------------------------------------------------------
(* Properties of the lists handed to the play-in and to the bracket         *)
(* (SpecPlayIn, SpecBracket)                                                *)

(* C22: no step of simulatePlayInTournament and no step of                  *)
(* simulateConferencePlayoffs changes the list of teams the caller handed   *)
(* over: after every step it holds the same teams in the same order as      *)
(* before it.                                                               *)
C22_GivenListsUnchanged ==
  [][/\ pin.pc # "none" => pin'.teams = pin.teams
     /\ brk.pc # "none" => brk'.teams = brk.teams]_vars

---------------------------------------------------------------------------
(* Properties of the weighting of a result (runSimulation under Spec,       *)
(* currentPlayoffSimulation under SpecEspn)                                 *)

(* The result of a run that has returned records the weighting its ratings  *)
(* were computed with. *)
SimWeightingRecorded ==
  \A r \in DOMAIN run :
    run[r].pc = "returned" =>
      /\ run[r].input.weighting = <<>> =>
           run[r].result.weighting = DefaultWeighting
      /\ \A t \in TeamsOfRun(run[r]) :
           t.weightedRating
             = WeightedRating(run[r].teamStats[t.ref], run[r].result.weighting)

(* The result of currentPlayoffSimulation records the weights               *)
(* calculateWeightedRating computed with. *)
EspnWeightingRecorded ==
  esp.pc = "resolved" => esp.result.weighting = UsedWeights(esp.weights)

(* C23: the weighting recorded in every returned SimulationResult is the    *)
(* weighting the ratings of that run were computed with, also when no       *)
(* weighting was supplied and the defaults 30, 50, 20 (hundredths) were     *)
(* used, in runSimulation and in currentPlayoffSimulation.                  *)
C23_RecordedWeightingIsUsed == SimWeightingRecorded /\ EspnWeightingRecorded

---------------------------------------------------------------------------
(* Properties of a game between ratings that sum to 0 or less (simulateGame *)
(* under SpecPlayIn)                                                        *)

(* C24: no game of the play-in whose two ratings sum to 0 or less has a     *)
(* winner: every game played and logged is between ratings whose sum is     *)
(* above 0, and a call with such a pair among its seeds 7-10 has failed     *)
(* with InvalidRating rather than returned seeds.                           *)
C24_NonPositiveSumRejected ==
  /\ \A g \in DOMAIN pin.games :
       pin.games[g].team1.weightedRating + pin.games[g].team2.weightedRating > 0
  /\ (pin.pc = "done"
        /\ \E i \in 7..10, j \in 7..10 :
             /\ i # j
             /\ pin.sortedTeams[i].weightedRating
                  + pin.sortedTeams[j].weightedRating <= 0)
       => pin.error = "InvalidRating"

---------------------------------------------------------------------------
(* Properties of the game log of a series (SpecSeries)                      *)

(* The games of a log that its entries give to the team of a name. *)
LoggedWins(games, name) ==
  Cardinality({g \in DOMAIN games : games[g].winner = name})

(* C26: in every returned series, of either service, the game numbers of    *)
(* the log are 1, 2, ..., n in order, the log gives team1 as many games as  *)
(* team1Wins and team2 as many as team2Wins, and its last game is won by    *)
(* the winner of the series.                                                *)
C26_GameLogMatchesScore ==
  ser.pc = "done" =>
    LET r == ser.result IN
      /\ \A g \in DOMAIN r.games : r.games[g].gameNumber = g
      /\ LoggedWins(r.games, r.team1.name) = r.team1Wins
      /\ LoggedWins(r.games, r.team2.name) = r.team2Wins
      /\ r.games[Len(r.games)].winner = r.winner.name

---------------------------------------------------------------------------
(* Properties of the distinctness of the seeds (SpecPlayIn, with the        *)
(* bracket under SpecBracket and both under Spec)                           *)

(* The teams of a list are pairwise distinct objects. *)
PairwiseDistinct(list) == Cardinality(Refs(list)) = Len(list)

(* No series of a list of rounds has the same team on both sides. *)
NoSelfSeries(rounds) ==
  \A k \in DOMAIN rounds : \A j \in DOMAIN rounds[k].series :
    rounds[k].series[j].team1.ref # rounds[k].series[j].team2.ref

(* C27: simulatePlayInTournament, given at least 10 pairwise distinct       *)
(* teams, returns 8 pairwise distinct seeds whatever the three games give;  *)
(* and a bracket on 8 pairwise distinct seeds, alone or inside a run, has   *)
(* no series with the same team on both sides in any round.                 *)
C27_SeedsPairwiseDistinct ==
  /\ (pin.pc = "done" /\ PairwiseDistinct(pin.given)) =>
       /\ Len(pin.seeds) = 8
       /\ PairwiseDistinct(pin.seeds)
       /\ \A g \in DOMAIN pin.games :
            pin.games[g].team1.ref # pin.games[g].team2.ref
  /\ (Started(brk) /\ Len(brk.teams) = 8 /\ PairwiseDistinct(brk.teams)) =>
       /\ NoSelfSeries(brk.rounds)
       /\ \A j \in DOMAIN brk.seriesResults :
            brk.seriesResults[j].team1.ref # brk.seriesResults[j].team2.ref
  /\ \A r \in DOMAIN run :
       Built(run[r]) =>
         \A c \in DOMAIN run[r].doc.conferences :
           /\ NoSelfSeries(run[r].doc.conferences[c].rounds)
           /\ PairwiseDistinct(Entrants(run[r].doc.conferences[c].rounds[1].series))

(* The loser of game 1 has won game 3: seed 8 is the 7th seed returned and  *)
(* seed 7 the 8th.                                                          *)
C27_Witness ==
  /\ pin.pc = "done"
  /\ Len(pin.given) > 10
  /\ PairwiseDistinct(pin.given)
  /\ pin.seeds[7] = pin.sortedTeams[8]
  /\ pin.seeds[8] = pin.sortedTeams[7]

---------------------------------------------------------------------------
(* Properties of the luck term of the ESPN-style series (SpecSeries)        *)

(* Game k goes to team1 by the ratings and the home bonuses alone. *)
Team1Stronger(s, k) ==
  s.team1.weightedRating + s.bonus[k][1] > s.team2.weightedRating + s.bonus[k][2]

(* C28: in EspnDataService.simulateSeries team1 is credited with a game     *)
(* exactly when its rating plus its home bonus is strictly greater than     *)
(* team2's rating plus team2's home bonus, whatever the luck draws were:    *)
(* the score is the count of such games and each logged winner is the       *)
(* stronger side's name.                                                    *)
C28_EspnSeriesIgnoresLuck ==
  (ser.pc \in {"loop", "done"} /\ ser.svc = "espn") =>
    /\ ser.team1Wins
         = Cardinality({k \in DOMAIN ser.bonus : Team1Stronger(ser, k)})
    /\ ser.team2Wins
         = Cardinality({k \in DOMAIN ser.bonus : ~Team1Stronger(ser, k)})
    /\ \A k \in DOMAIN ser.games :
         ser.games[k].winner = IF Team1Stronger(ser, k) THEN ser.team1.name
                               ELSE ser.team2.name

---------------------------------------------------------------------------
(* Properties of the stats query of a run (SpecStats)                       *)

TeamIdsOf(docs, filters, conference) ==
  {docs[k].teamId : k \in {j \in DOMAIN docs : /\ Matches(docs[j], filters)
                                               /\ TeamDocs[docs[j].teamId].conference = conference}}

(* The collection holds lines of at least 10 Eastern and 10 Western teams   *)
(* for the season and the date.                                             *)
EnoughStored(docs, filters) ==
  /\ Cardinality(TeamIdsOf(docs, filters, "Eastern")) >= 10
  /\ Cardinality(TeamIdsOf(docs, filters, "Western")) >= 10

InsufficientTeamData == [kind |-> "BadRequest", stage |-> "stats"]

(* C29: when the collection holds stat lines of at least 10 Eastern and 10  *)
(* Western teams for the season and the date of a run, the query of the run *)
(* returns at least 16 stat lines and the run does not fail with the        *)
(* insufficient team data error.                                            *)
C29_EnoughStoredEnoughReturned ==
  [][\A r \in DOMAIN run :
       (/\ run[r].pc = "awaitStats"
        /\ run'[r].pc # "awaitStats"
        /\ EnoughStored(stats.teamstats, FiltersOf(run[r].input)))
         => /\ Len(run'[r].teamStats) >= MinStatLines
            /\ run'[r].error # InsufficientTeamData]_vars

(* Two stat lines of one team, or of one name in one conference. *)
SameTeam(line1, line2) ==
  \/ line1.teamId = line2.teamId
  \/ /\ ConferenceOf(line1) = ConferenceOf(line2)
     /\ line1.teamName # ""
     /\ line1.teamName = line2.teamName

(* C30: the stat lines a run works on hold at most one line of each team,   *)
(* also when the collection holds several dated snapshots of a team: no     *)
(* team, and no team name within a conference, is there twice.              *)
C30_OneStatLinePerTeam ==
  \A r \in DOMAIN run :
    (stats.version \in Versions /\ run[r].pc \in {"awaitSave", "returned", "threw"}) =>
      \A j \in DOMAIN run[r].teamStats, k \in DOMAIN run[r].teamStats :
        SameTeam(run[r].teamStats[j], run[r].teamStats[k]) => j = k

---------------------------------------------------------------------------
(* Properties of the failures of a run (Spec)                               *)

(* C16: a run that has failed has surfaced to its caller an error of the    *)
(* kind that was raised, with the stage where it was raised (stat lines,    *)
(* split, play-in, bracket, finals, save) still in it; no failure is        *)
(* replaced by a generic one without kind and stage.                        *)
C16_FailureKeepsKindAndStage ==
  \A r \in Runs :
    run[r].pc = "threw" =>
      /\ run[r].surfaced.kind = run[r].error.kind
      /\ run[r].surfaced.stage = run[r].error.stage

---------------------------------------------------------------------------
(* Properties of the results returned (runSimulation under Spec,            *)
(* currentPlayoffSimulation under SpecEspn)                                 *)

(* The champion of a ConferenceResult is the winner of the last series of   *)
(* its last round. *)
ChampionWonLastSeries(conference) ==
  /\ conference.rounds # <<>>
  /\ LET last == conference.rounds[Len(conference.rounds)].series
     IN /\ last # <<>>
        /\ conference.champion = last[Len(last)].winner

(* The overall champion is the champion of exactly one conference. *)
ChampionOfOneConference(result) ==
  Cardinality({c \in DOMAIN result.conferences :
                 result.conferences[c].champion = result.champion}) = 1

ResultAsClaimed(result) ==
  /\ \A c \in DOMAIN result.conferences :
       ChampionWonLastSeries(result.conferences[c])
  /\ ChampionOfOneConference(result)

SimResultAsClaimed ==
  \A r \in DOMAIN run : run[r].pc = "returned" => ResultAsClaimed(run[r].result)

EspnResultAsClaimed == esp.pc = "resolved" => ResultAsClaimed(esp.result)

(* C18: in every SimulationResult that runSimulation or                     *)
(* currentPlayoffSimulation has returned, the champion of each conference   *)
(* is the winner of the last series of that conference's rounds, and the    *)
(* overall champion is the champion of exactly one of the two conferences.  *)
C18_ChampionsFromSeries == SimResultAsClaimed /\ EspnResultAsClaimed

---------------------------------------------------------------------------
(* Properties of the seeds (simulatePlayInTournament under SpecPlayIn,      *)
(* simulateCurrentPlayoffs under SpecEspn)                                  *)

(* The first ten of a list are in descending order of weightedRating. *)
DescendingRating(list) ==
  \A i \in DOMAIN list, j \in DOMAIN list :
    (i < j /\ j <= PlayInPool) =>
      list[i].weightedRating >= list[j].weightedRating

(* The seed order simulatePlayInTournament plays the play-in with. *)
SimSeedsByRating ==
  pin.pc \in {"game1", "game2", "game3", "done"} =>
    DescendingRating(pin.sortedTeams)

(* The seed order of each conference in simulateCurrentPlayoffs, and the    *)
(* order the bracket of a conference is paired in.                          *)
EspnSeedsByRating ==
  esp.pc \notin {"none", "call"} =>
    /\ \A k \in DOMAIN Conferences :
         DescendingRating(esp.conferenceTeams[Conferences[k]])
    /\ DescendingRating(esp.confTeams)

(* C19: the seed order of a conference that the play-in and the bracket use *)
(* is descending weightedRating: among seeds 1..10, an earlier seed has a   *)
(* rating at least that of a later seed, in both services.                  *)
C19_SeedsByDescendingRating == SimSeedsByRating /\ EspnSeedsByRating

(* simulatePlayInTournament has returned: the 8 teams it returns are its    *)
(* seeds 1-6 and the winners of games 1 and 3; the teams that played are    *)
(* exactly its seeds 7-10, none of them a seed 1-6; and none of the two     *)
(* teams that lost their last game is returned.                             *)
SimEntrantsAsClaimed ==
  pin.pc = "done" =>
    LET top6 == {pin.sortedTeams[k] : k \in 1..6}
        playIn == {pin.sortedTeams[k] : k \in 7..10}
        played == UNION {{pin.games[g].team1, pin.games[g].team2} :
                           g \in DOMAIN pin.games}
        winners == {pin.games[1].winner, pin.games[3].winner}
        entrants == {pin.seeds[k] : k \in DOMAIN pin.seeds}
    IN /\ Len(pin.seeds) = 8
       /\ entrants = top6 \cup winners
       /\ Cardinality(entrants) = 8
       /\ played = playIn
       /\ played \cap top6 = {}
       /\ (playIn \ winners) \cap entrants = {}

(* simulateCurrentPlayoffs begins round 1 of a conference of ten teams: the *)
(* 8 teams of the round are the first six of the conference and the        *)
(* winners of its first and third play-in contest, and the four teams of    *)
(* its play-in were the conference's 7th to 10th.                           *)
EspnEntrantsAsClaimed ==
  (esp.pc = "firstRound" /\ esp.i = 0) =>
    LET c == Conferences[esp.conf]
        pool == esp.conferenceTeams[c]
        entrants == {esp.confTeams[k].id : k \in 1..EspnBracketTeams}
        plays == {k \in DOMAIN esp.played : esp.played[k].conference = c}
    IN Len(pool) = PlayInPool =>
         /\ Cardinality(plays) = 1
         /\ \A k \in plays :
              LET p == esp.played[k]
                  winners == {IdOfName(esp.db, p.series[1].winner, 0),
                              IdOfName(esp.db, p.series[3].winner, 0)}
                  playIn == {pool[j].id : j \in 7..10}
              IN /\ {p.seeds[j] : j \in DOMAIN p.seeds} = playIn
                 /\ entrants = {pool[j].id : j \in 1..6} \cup winners
                 /\ (playIn \ winners) \cap entrants = {}

(* C20: the 8 teams that enter round 1 of a conference are its 6 top-ranked *)
(* teams and the winners of play-in games 1 and 3; the four play-in         *)
(* participants are exactly the teams ranked 7th to 10th, so no team ranked *)
(* 1st to 6th plays a play-in game; and no play-in loser enters round 1; in *)
(* both services.                                                           *)
C20_EntrantsTopSixAndPlayInWinners ==
  SimEntrantsAsClaimed /\ EspnEntrantsAsClaimed

---------------------------------------------------------------------------
(* Properties of two runs with the same draws (SpecReplay)                  *)

(* Two runs were given the same input and the same stat lines and read the  *)
(* same draws. *)
SameGiven(a, b) ==
  /\ a.input = b.input
  /\ a.teamStats = b.teamStats
  /\ a.drawsFrom = b.drawsFrom

Returned == {r \in ReplayRuns : run[r].pc = "returned"}

(* C25: with two calls of runSimulation interleaved at their awaits, what a *)
(* run has built (conferences, champion, finals) is what its own input,     *)
(* stat lines and draws give, whatever the other run has done meanwhile;    *)
(* every run that has returned has saved exactly one document, its own,     *)
(* complete, and has returned that document; and the collection holds one   *)
(* document for each run that has returned and nothing else.                *)
C25_ConcurrentRunsIndependent ==
  /\ \A r \in ReplayRuns :
       /\ Built(run[r]) =>
            \E out \in {Simulate(run[r].input, run[r].teamStats,
                                 Source(RandomTape, run[r].drawsFrom))} :
              /\ out.ok
              /\ run[r].doc = out.doc
              /\ run[r].finals = out.finals
              /\ FinalsCompleted(run[r])
       /\ run[r].pc = "returned" =>
            /\ run[r].result.id \in 1..Len(store)
            /\ store[run[r].result.id] = [id |-> run[r].result.id] @@ run[r].doc
            /\ run[r].result = MapToSimulationResult(store[run[r].result.id])
       /\ run[r].pc # "returned" => run[r].result = NoDoc
  /\ Len(store) = Cardinality(Returned)
  /\ \A a \in Returned, b \in Returned :
       a # b => run[a].result.id # run[b].result.id

(* Both runs were in progress together and have returned different results: *)
(* the second was called and read its draws before the first saved, and     *)
(* saved before it.                                                         *)
C25_Witness ==
  /\ Returned = ReplayRuns
  /\ run[1].storeBefore = <<>> /\ run[2].storeBefore = <<>>
  /\ run[1].result.id = 2 /\ run[2].result.id = 1
  /\ run[1].drawsFrom # run[2].drawsFrom
  /\ run[1].doc.champion # run[2].doc.champion

---------------------------------------------------------------------------
(* Properties of the weights (SpecRating)                                   *)

(* The rating the claim asks for: the formula with the supplied weights,    *)
(* or with the defaults when no weighting is supplied.                      *)
RatingAsSupplied(stat, weighting) ==
  WeightedRating(stat, IF weighting = <<>> THEN DefaultWeighting
                       ELSE weighting[1])

SimWeightsAsSupplied ==
  rat.pc = "simulation" => rat.rating = RatingAsSupplied(rat.stat, rat.weighting)

EspnWeightsAsSupplied ==
  rat.pc = "espn" => rat.rating = RatingAsSupplied(rat.stat, rat.weighting)

(* C15: the rating computed for a stat line is the formula with every       *)
(* weight the caller supplied, a weight of 0 included, and with the         *)
(* defaults 30, 50, 20 (hundredths) only when no weighting is supplied, in   *)
(* both services.                                                           *)
C15_WeightsUsedUnchanged == SimWeightsAsSupplied /\ EspnWeightsAsSupplied

====
